---------------------------- MODULE Spec2Model ----------------------------
(***************************************************************************)
(* Model of the insert path of SiriDB (src/src/siri/db/insert.c): the      *)
(* decoder / repacker (siridb_insert_assign_pools and its helpers), the    *)
(* router (INSERT_get_pool), the dispatcher (INSERT_points_to_pools), the  *)
(* completion callback (INSERT_on_response), local apply                   *)
(* (siridb_insert_local, INSERT_local_test) and the job's life cycle       *)
(* (siridb_insert_new, siridb_insert_points_to_pools, INSERT_free).        *)
(*                                                                         *)
(* A qpack stream is modelled as the sequence of objects that qp_next      *)
(* returns one by one; a packer is the sequence of objects added to it     *)
(* after its package header.                                               *)
(***************************************************************************)
EXTENDS Integers, Sequences, FiniteSets, TLC

(***************************************************************************)
(* Bounds of the model.                                                    *)
(***************************************************************************)
MaxPools == 2
MaxSeries == 2
MaxPoints == 2
MaxFailAt == 2

(***************************************************************************)
(* Raw byte strings are sequences of characters; NUL is the terminator     *)
(* that qp_add_raw_term appends and that ends a C string literal.          *)
(***************************************************************************)
NUL == "NUL"
STR_name == <<"n", "a", "m", "e">>
STR_points == <<"p", "o", "i", "n", "t", "s">>
Names == {<<"a">>, <<"b">>}

\* Error codes of siridb_insert_err_t, all negative.
ERR_EXPECTING_ARRAY == -9
ERR_EXPECTING_SERIES_NAME == -8
ERR_EXPECTING_MAP_OR_ARRAY == -7
ERR_EXPECTING_INTEGER_TS == -6
ERR_TIMESTAMP_OUT_OF_RANGE == -5
ERR_UNSUPPORTED_VALUE == -4
ERR_EXPECTING_AT_LEAST_ONE_POINT == -3
ERR_EXPECTING_NAME_AND_POINTS == -2
ERR_MEM_ALLOC == -1

\* Upper limit (exclusive) of the length of a series name, scaled down.
SIRIDB_SERIES_NAME_LEN_MAX == 4

\* Number of entries of a lookup table (scaled down).
SIRIDB_LOOKUP_SZ == 2

\* Time-stamps the database accepts lie in 0 .. TS_LIMIT - 1 (scaled down).
TS_LIMIT == 8

VARIABLES
    pools_len,        \* siridb->pools->len, the live pool count
    own_pool,         \* siridb->server->pool
    lookup,           \* siridb->pools->lookup
    prev_lookup,      \* siridb->pools->prev_lookup
    reindexing,       \* siridb->flags & SIRIDB_FLAG_REINDEXING
    series,           \* siridb->series: the names in the local series index
    siri_err,         \* the process-wide critical-error signal
    batch,            \* the logical batch the client packet encodes
    wellformed,       \* whether stream is a wire form of batch
    stream,           \* the client packet as a sequence of qpack objects
    phase,            \* where the request is in its life
    insert,           \* the insert job (siridb_insert_t)
    rc,               \* what siridb_insert_assign_pools returned
    client,           \* the client socket: lock and unlock counts
    responses,        \* the packages sent to the client, in order
    replica,          \* siridb->replica != NULL
    initsync,         \* siridb->replicate->initsync != NULL
    server_id,        \* siridb->server->id: 0 or 1 within the pool
    received_points,  \* siridb->received_points
    storage,          \* the calls of siridb_series_add_point, in order
    promises,         \* the promises aggregator of the job
    pending,          \* the pools whose response is still awaited
    sends,            \* the calls of siridb_pool_send_pkg, in order
    replicated,       \* the packages handed to siridb_replicate_pkg
    forward,          \* the Forward job of the test variant
    events            \* what the job did, in program order

dbvars == <<pools_len, own_pool, lookup, prev_lookup, reindexing, series,
            replica, initsync, server_id>>
reqvars == <<batch, wellformed, stream>>
jobvars == <<received_points, storage, promises, pending, sends, replicated,
             forward, events>>
vars == <<pools_len, own_pool, lookup, prev_lookup, reindexing, series,
          siri_err, batch, wellformed, stream, phase, insert, rc, client,
          responses, replica, initsync, server_id, received_points, storage,
          promises, pending, sends, replicated, forward, events>>

(***************************************************************************)
(* qpack objects.                                                          *)
(***************************************************************************)
Obj(tp, raw, num) == [tp |-> tp, raw |-> raw, num |-> num]
TypeObj(tp) == Obj(tp, <<>>, 0)
RawObj(raw) == Obj("QP_RAW", raw, 0)
IntObj(n) == Obj("QP_INT64", <<>>, n)
DoubleObj(n) == Obj("QP_DOUBLE", <<>>, n)

qp_is_map(tp) ==
    tp \in {"QP_MAP_OPEN", "QP_MAP0", "QP_MAP1", "QP_MAP2", "QP_MAP3",
            "QP_MAP4", "QP_MAP5"}

qp_is_array(tp) ==
    tp \in {"QP_ARRAY_OPEN", "QP_ARRAY0", "QP_ARRAY1", "QP_ARRAY2",
            "QP_ARRAY3", "QP_ARRAY4", "QP_ARRAY5"}

\* The object at position p of stream s; past the end qp_next gives QP_END.
ObjAt(s, p) == IF p > Len(s) THEN TypeObj("QP_END") ELSE s[p]

(***************************************************************************)
(* The state of one run of the decoder: the unpacker position, the object  *)
(* last stored in qp_obj, the type last returned by qp_next, the pool      *)
(* packers and the scratch packer, the point count, the return code of the *)
(* helper that ran last, the signal, and the number of packer writes done  *)
(* so far with the write that fails for lack of memory (0: none).          *)
(***************************************************************************)
TMP == -1

\* qp_next(unpacker, qp_obj): return the type and store the object.
qp_next(s, d) ==
    [d EXCEPT !.pos = IF @ > Len(s) THEN @ ELSE @ + 1,
              !.tp = ObjAt(s, d.pos).tp,
              !.obj = ObjAt(s, d.pos)]

\* qp_next(unpacker, NULL): return the type only.
qp_next_null(s, d) ==
    [d EXCEPT !.pos = IF @ > Len(s) THEN @ ELSE @ + 1,
              !.tp = ObjAt(s, d.pos).tp]

\* Variant: a write replaces what the packer holds.
qp_add_overwrite(d, pk, objs) ==
    IF d.adds + 1 = d.failAt
    THEN [d EXCEPT !.adds = @ + 1, !.err = TRUE]
    ELSE IF pk = TMP
         THEN [d EXCEPT !.adds = @ + 1, !.tmp = objs]
         ELSE [d EXCEPT !.adds = @ + 1, !.packer[pk] = objs]

\* One write to a packer; the write numbered failAt finds no memory, raises
\* the signal and leaves the packer as it was.
qp_add(d, pk, objs) ==
    IF d.adds + 1 = d.failAt
    THEN [d EXCEPT !.adds = @ + 1, !.err = TRUE]
    ELSE IF pk = TMP
         THEN [d EXCEPT !.adds = @ + 1, !.tmp = @ \o objs]
         ELSE [d EXCEPT !.adds = @ + 1, !.packer[pk] = @ \o objs]

qp_add_type(d, pk, tp) == qp_add(d, pk, <<TypeObj(tp)>>)
qp_add_int64(d, pk, n) == qp_add(d, pk, <<IntObj(n)>>)
qp_add_double(d, pk, n) == qp_add(d, pk, <<DoubleObj(n)>>)
qp_add_raw(d, pk, raw) == qp_add(d, pk, <<RawObj(raw)>>)
\* Variant: the name goes to the first pool's packer whatever the pool is.
qp_add_raw_term_first(d, pk, raw) == qp_add(d, 0, <<RawObj(raw \o <<NUL>>)>>)
qp_add_raw_term(d, pk, raw) == qp_add(d, pk, <<RawObj(raw \o <<NUL>>)>>)

\* Variant: the scratch packer is dropped instead of being flushed.
qp_packer_extend_none(d, pk) == d
\* qp_packer_extend(packer[pool], tmp_packer)
qp_packer_extend(d, pk) == qp_add(d, pk, d.tmp)

\* strncmp(raw, lit, n) == 0 where lit is a C string literal.
RECURSIVE strncmp_from(_, _, _, _)
strncmp_from(raw, lit, n, i) ==
    IF i > n THEN TRUE
    ELSE LET c2 == IF i <= Len(lit) THEN lit[i] ELSE NUL
         IN  IF raw[i] # c2 THEN FALSE
             ELSE IF c2 = NUL THEN TRUE
             ELSE strncmp_from(raw, lit, n, i + 1)

strncmp_eq(raw, lit, n) == strncmp_from(raw, lit, n, 1)

\* Variant: every integer is taken for a time-stamp.
siridb_int64_valid_ts_any(ts) == TRUE
siridb_int64_valid_ts(ts) == ts >= 0 /\ ts < TS_LIMIT


(***************************************************************************)
(* The router.                                                             *)
(***************************************************************************)
\* siridb_lookup_sn_raw(lookup, raw, len): the sum of the bytes of the name
\* selects an entry of the lookup table, which holds a pool id.
CharCode(c) ==
    CASE c = "a" -> 97 [] c = "b" -> 98 [] c = "e" -> 101 [] c = "i" -> 105
      [] c = "m" -> 109 [] c = "n" -> 110 [] c = "o" -> 111 [] c = "p" -> 112
      [] c = "s" -> 115 [] c = "t" -> 116 [] c = "x" -> 120 [] OTHER -> 0

RECURSIVE ByteSum(_)
ByteSum(raw) ==
    IF raw = <<>> THEN 0 ELSE CharCode(Head(raw)) + ByteSum(Tail(raw))

siridb_lookup_sn_raw(table, raw) == table[ByteSum(raw) % SIRIDB_LOOKUP_SZ]

\* ct_getn(siridb->series, raw, len) != NULL
ct_getn(raw) == raw \in series

\* Variant: while re-indexing, the previous lookup alone decides.
INSERT_get_pool_prev(raw) ==
    IF ~reindexing
    THEN siridb_lookup_sn_raw(lookup, raw)
    ELSE IF ct_getn(raw)
         THEN own_pool
         ELSE siridb_lookup_sn_raw(prev_lookup, raw)

INSERT_get_pool(raw) ==
    IF ~reindexing
    THEN siridb_lookup_sn_raw(lookup, raw)
    ELSE IF ct_getn(raw)
         THEN own_pool
         ELSE LET pool == siridb_lookup_sn_raw(prev_lookup, raw)
              IN  IF pool = own_pool
                  THEN siridb_lookup_sn_raw(lookup, raw)
                  ELSE pool

(***************************************************************************)
(* The decoder and repacker.                                               *)
(***************************************************************************)
Fail(d, code) == [d EXCEPT !.rc = code]

\* (*count)++ of the for loop of INSERT_read_points.
count_point_skip(d) == d
count_point(d) == [d EXCEPT !.count = @ + 1]

\* The for loop of INSERT_read_points; d.tp is the type just read.  The
\* local operators are the rest of the loop body after each qp_next.
RECURSIVE read_points_loop(_, _, _)
read_points_loop(s, d, pk) ==
    IF d.tp # "QP_ARRAY2" THEN d
    ELSE LET repacked(d5) ==
                 IF d5.rc < 0 THEN d5
                 ELSE read_points_loop(s, qp_next(s, count_point(d5)), pk)
             value(d4) ==
                 repacked(CASE d4.tp = "QP_RAW" ->
                                   qp_add_raw(d4, pk, d4.obj.raw)
                            [] d4.tp = "QP_INT64" ->
                                   qp_add_int64(d4, pk, d4.obj.num)
                            [] d4.tp = "QP_DOUBLE" ->
                                   qp_add_double(d4, pk, d4.obj.num)
                            [] OTHER -> Fail(d4, ERR_UNSUPPORTED_VALUE))
             ts(d2) ==
                 IF d2.tp # "QP_INT64"
                 THEN Fail(d2, ERR_EXPECTING_INTEGER_TS)
                 ELSE IF ~siridb_int64_valid_ts(d2.obj.num)
                 THEN Fail(d2, ERR_TIMESTAMP_OUT_OF_RANGE)
                 ELSE value(qp_next(s, qp_add_int64(d2, pk, d2.obj.num)))
         IN  ts(qp_next(s, qp_add_type(d, pk, "QP_ARRAY2")))

\* Variant: the points array is not closed in the buffer.
INSERT_read_points_open(s, d, pk) ==
    LET close(d4) ==
            IF d4.rc < 0 THEN d4
            ELSE IF d4.tp = "QP_ARRAY_CLOSE" THEN qp_next(s, d4) ELSE d4
        first(d3) ==
            IF d3.tp # "QP_ARRAY2"
            THEN Fail(d3, ERR_EXPECTING_AT_LEAST_ONE_POINT)
            ELSE close(read_points_loop(s, d3, pk))
        open(d1) ==
            IF ~qp_is_array(d1.tp)
            THEN Fail(d1, ERR_EXPECTING_ARRAY)
            ELSE first(qp_next_null(s, qp_add_type(d1, pk, "QP_ARRAY_OPEN")))
    IN  open(qp_next_null(s, [d EXCEPT !.rc = 0]))

\* Returns (in rc) a negative error, or 0 with the next type in tp.
INSERT_read_points(s, d, pk) ==
    LET close(d4) ==
            IF d4.rc < 0 THEN d4
            ELSE qp_add_type(IF d4.tp = "QP_ARRAY_CLOSE"
                             THEN qp_next(s, d4)
                             ELSE d4,
                             pk, "QP_ARRAY_CLOSE")
        first(d3) ==
            IF d3.tp # "QP_ARRAY2"
            THEN Fail(d3, ERR_EXPECTING_AT_LEAST_ONE_POINT)
            ELSE close(read_points_loop(s, d3, pk))
        open(d1) ==
            IF ~qp_is_array(d1.tp)
            THEN Fail(d1, ERR_EXPECTING_ARRAY)
            ELSE first(qp_next_null(s, qp_add_type(d1, pk, "QP_ARRAY_OPEN")))
    IN  open(qp_next_null(s, [d EXCEPT !.rc = 0]))

ValidNameLen(raw) == Len(raw) > 0 /\ Len(raw) < SIRIDB_SERIES_NAME_LEN_MAX

\* The while loop of INSERT_assign_by_map.
RECURSIVE assign_by_map_loop(_, _)
assign_by_map_loop(s, d) ==
    IF d.tp = "QP_RAW" /\ ValidNameLen(d.obj.raw)
    THEN LET points(d2) ==
                 IF d2.rc < 0 THEN d2 ELSE assign_by_map_loop(s, d2)
             to(pool) ==
                 points(INSERT_read_points(
                            s, qp_add_raw_term(d, pool, d.obj.raw), pool))
         IN  to(INSERT_get_pool(d.obj.raw))
    ELSE d

INSERT_assign_by_map(s, d) ==
    LET end(d1) ==
            IF d1.rc < 0 THEN d1
            ELSE IF d1.tp # "QP_END" /\ d1.tp # "QP_MAP_CLOSE"
            THEN Fail(d1, ERR_EXPECTING_SERIES_NAME)
            ELSE [d1 EXCEPT !.rc = d1.count]
    IN  end(assign_by_map_loop(s, qp_next(s, d)))

\* The name part of one element of the array form, and what follows it.
RECURSIVE assign_by_array_loop(_, _)
assign_by_array_name(s, a) ==
    IF strncmp_eq(a.obj.raw, STR_name, Len(a.obj.raw))
    THEN LET again(r) ==
                 IF r.rc < 0 THEN r ELSE assign_by_array_loop(s, r)
             points(k, pool) ==
                 IF k.tp # "QP_RAW" \/
                    ~strncmp_eq(k.obj.raw, STR_points, Len(k.obj.raw))
                 THEN Fail(k, ERR_EXPECTING_NAME_AND_POINTS)
                 ELSE again(INSERT_read_points(s, k, pool))
             flushed(c) ==
                 assign_by_array_loop(s, qp_next(s, [c EXCEPT !.tmp = <<>>]))
             named(b, pool) ==
                 IF Len(b.tmp) > 0
                 THEN flushed(qp_packer_extend(b, pool))
                 ELSE points(qp_next(s, b), pool)
             to(n, pool) == named(qp_add_raw_term(n, pool, n.obj.raw), pool)
             name(n) ==
                 IF n.tp # "QP_RAW" \/ ~ValidNameLen(n.obj.raw)
                 THEN Fail(n, ERR_EXPECTING_NAME_AND_POINTS)
                 ELSE to(n, INSERT_get_pool(n.obj.raw))
         IN  name(qp_next(s, a))
    ELSE Fail(a, ERR_EXPECTING_NAME_AND_POINTS)

\* The while loop of INSERT_assign_by_array.
assign_by_array_loop(s, d) ==
    IF d.tp # "QP_MAP2" THEN d
    ELSE LET scratch(a) ==
                 IF a.rc < 0 THEN a
                 ELSE IF a.tp # "QP_RAW"
                 THEN Fail(a, ERR_EXPECTING_NAME_AND_POINTS)
                 ELSE assign_by_array_name(s, a)
             key(k1) ==
                 IF k1.tp # "QP_RAW"
                 THEN Fail(k1, ERR_EXPECTING_NAME_AND_POINTS)
                 ELSE IF strncmp_eq(k1.obj.raw, STR_points, Len(k1.obj.raw))
                 THEN scratch(INSERT_read_points(s, k1, TMP))
                 ELSE assign_by_array_name(s, k1)
         IN  key(qp_next(s, d))

INSERT_assign_by_array(s, d) ==
    LET end(d1) ==
            IF d1.rc < 0 THEN d1
            ELSE IF d1.tp # "QP_END" /\ d1.tp # "QP_ARRAY_CLOSE"
            THEN Fail(d1, ERR_EXPECTING_SERIES_NAME)
            ELSE [d1 EXCEPT !.rc = d1.count]
    IN  end(assign_by_array_loop(s, qp_next(s, d)))

\* The decoder state at the start of siridb_insert_assign_pools.
Decoder(packer, err, failAt) ==
    [pos |-> 1, tp |-> "QP_END", obj |-> TypeObj("QP_END"),
     packer |-> packer, tmp |-> <<>>, count |-> 0, rc |-> 0,
     err |-> err, adds |-> 0, failAt |-> failAt]

\* tmpOK: qp_packer_new of the scratch packer succeeds (else it raises the
\* signal and returns NULL).
\* Variant: the decoding result is returned as it is, signal or not.
siridb_insert_assign_pools_rc(s, packer, err, tmpOK, failAt) ==
    LET form(d0) ==
            IF qp_is_map(d0.tp)
            THEN INSERT_assign_by_map(s, d0)
            ELSE IF qp_is_array(d0.tp)
            THEN IF tmpOK
                 THEN INSERT_assign_by_array(s, d0)
                 ELSE [d0 EXCEPT !.err = TRUE]
            ELSE Fail(d0, ERR_EXPECTING_MAP_OR_ARRAY)
    IN  form(qp_next_null(s, Decoder(packer, err, failAt)))

siridb_insert_assign_pools(s, packer, err, tmpOK, failAt) ==
    LET result(d1) ==
            [d1 EXCEPT !.rc = IF d1.err THEN ERR_MEM_ALLOC ELSE d1.rc]
        form(d0) ==
            result(IF qp_is_map(d0.tp)
                   THEN INSERT_assign_by_map(s, d0)
                   ELSE IF qp_is_array(d0.tp)
                   THEN IF tmpOK
                        THEN INSERT_assign_by_array(s, d0)
                        ELSE [d0 EXCEPT !.err = TRUE]
                   ELSE Fail(d0, ERR_EXPECTING_MAP_OR_ARRAY))
    IN  form(qp_next_null(s, Decoder(packer, err, failAt)))


(***************************************************************************)
(* Client batches and their two wire forms.                                *)
(***************************************************************************)
PointPool ==
    << [ts |-> 1, val |-> IntObj(5)],
       [ts |-> 2, val |-> RawObj(<<"x">>)],
       [ts |-> 3, val |-> DoubleObj(1)] >>

\* The n points of the i-th series of a batch.
PointsOf(i, n) == [j \in 1..n |-> PointPool[((i + j - 2) % 3) + 1]]

BatchShapes ==
    UNION {[1..k -> Names \X (1..MaxPoints)] : k \in 0..MaxSeries}

BatchOf(shape) ==
    [i \in 1..Len(shape) |->
        [name |-> shape[i][1], points |-> PointsOf(i, shape[i][2])]]

Batches == {BatchOf(sh) : sh \in BatchShapes}

\* The batches of the dispatcher's model: the i-th series has i points, up
\* to MaxPoints.
JobBatches ==
    {b \in Batches :
        \A i \in 1..Len(b) : Len(b[i].points) = ((i - 1) % MaxPoints) + 1}

RECURSIVE Flatten(_)
Flatten(ss) == IF ss = <<>> THEN <<>> ELSE Head(ss) \o Flatten(Tail(ss))

FixedType(kind, n) ==
    IF kind = "map"
    THEN <<"QP_MAP0", "QP_MAP1", "QP_MAP2", "QP_MAP3", "QP_MAP4",
           "QP_MAP5">>[n + 1]
    ELSE <<"QP_ARRAY0", "QP_ARRAY1", "QP_ARRAY2", "QP_ARRAY3", "QP_ARRAY4",
           "QP_ARRAY5">>[n + 1]

\* A container of n members: fixed size (no close marker) or open / close.
Container(kind, fixed, n, body) ==
    IF fixed /\ n <= 5
    THEN <<TypeObj(FixedType(kind, n))>> \o body
    ELSE IF kind = "map"
         THEN <<TypeObj("QP_MAP_OPEN")>> \o body \o <<TypeObj("QP_MAP_CLOSE")>>
         ELSE <<TypeObj("QP_ARRAY_OPEN")>> \o body
                  \o <<TypeObj("QP_ARRAY_CLOSE")>>

EncPoint(p) == <<TypeObj("QP_ARRAY2"), IntObj(p.ts), p.val>>

EncPoints(pts, fixed) ==
    Container("array", fixed, Len(pts),
              Flatten([j \in 1..Len(pts) |-> EncPoint(pts[j])]))

\* map { series_name: [[ts, value], ...], ... }
EncMap(b, topFixed, ptsFixed) ==
    Container("map", topFixed, Len(b),
              Flatten([i \in 1..Len(b) |->
                          <<RawObj(b[i].name)>>
                              \o EncPoints(b[i].points, ptsFixed)]))

\* array [ {"name": series_name, "points": [...]}, ... ]; order[i] tells
\* whether element i carries its name first ("NP") or its points ("PN").
EncArray(b, topFixed, ptsFixed, order) ==
    Container("array", topFixed, Len(b),
              Flatten([i \in 1..Len(b) |->
                  IF order[i] = "NP"
                  THEN <<TypeObj("QP_MAP2"), RawObj(STR_name),
                         RawObj(b[i].name), RawObj(STR_points)>>
                           \o EncPoints(b[i].points, ptsFixed)
                  ELSE <<TypeObj("QP_MAP2"), RawObj(STR_points)>>
                           \o EncPoints(b[i].points, ptsFixed)
                           \o <<RawObj(STR_name), RawObj(b[i].name)>>]))

MapStreams(b) ==
    {EncMap(b, tf, pf) : tf \in BOOLEAN, pf \in BOOLEAN}

ArrayStreams(b) ==
    {EncArray(b, f[1], f[2], o) :
        f \in BOOLEAN \X BOOLEAN, o \in [1..Len(b) -> {"NP", "PN"}]}

\* Packets that are no wire form of a batch, or an unusual one.
T(tp) == TypeObj(tp)
Pt(ts, v) == <<T("QP_ARRAY2"), IntObj(ts), IntObj(v)>>
OddStreams ==
    { \* a points array whose second member is a string
      <<T("QP_MAP1"), RawObj(<<"a">>), T("QP_ARRAY3")>> \o Pt(1, 5)
          \o <<RawObj(<<"x">>), T("QP_ARRAY1")>> \o Pt(2, 5),
      \* a points array whose second member has one element
      <<T("QP_MAP1"), RawObj(<<"a">>), T("QP_ARRAY2")>> \o Pt(1, 5)
          \o <<T("QP_ARRAY1"), IntObj(2)>>,
      \* array form with empty keys
      <<T("QP_ARRAY1"), T("QP_MAP2"), RawObj(<<>>), T("QP_ARRAY1")>>
          \o Pt(1, 5) \o <<RawObj(<<>>), RawObj(<<"a">>)>>,
      \* array form with keys "n" and "p"
      <<T("QP_ARRAY1"), T("QP_MAP2"), RawObj(<<"n">>), RawObj(<<"a">>),
        RawObj(<<"p">>), T("QP_ARRAY1")>> \o Pt(1, 5),
      \* array form with a key that is neither name nor points
      <<T("QP_ARRAY1"), T("QP_MAP2"), RawObj(STR_name), RawObj(<<"a">>),
        RawObj(<<"x">>), T("QP_ARRAY1")>> \o Pt(1, 5),
      \* array form whose element is no map of two
      <<T("QP_ARRAY1"), T("QP_MAP1"), RawObj(STR_name), RawObj(<<"a">>)>>,
      \* an integer where a series name is expected
      <<T("QP_MAP_OPEN"), RawObj(<<"a">>), T("QP_ARRAY1")>> \o Pt(1, 5)
          \o <<IntObj(7), T("QP_ARRAY1")>> \o Pt(2, 5) \o <<T("QP_MAP_CLOSE")>>,
      \* a series name of the maximal length
      <<T("QP_MAP1"), RawObj(<<"a", "a", "a", "a">>), T("QP_ARRAY1")>>
          \o Pt(1, 5),
      \* points that are no array
      <<T("QP_MAP1"), RawObj(<<"a">>), IntObj(5)>>,
      \* no points
      <<T("QP_MAP1"), RawObj(<<"a">>), T("QP_ARRAY0")>>,
      <<T("QP_MAP1"), RawObj(<<"a">>), T("QP_ARRAY_OPEN"),
        T("QP_ARRAY_CLOSE")>>,
      \* a time-stamp that is a string, and one out of range
      <<T("QP_MAP1"), RawObj(<<"a">>), T("QP_ARRAY1"), T("QP_ARRAY2"),
        RawObj(<<"x">>), IntObj(1)>>,
      <<T("QP_MAP1"), RawObj(<<"a">>), T("QP_ARRAY1")>> \o Pt(TS_LIMIT, 5),
      <<T("QP_MAP1"), RawObj(<<"a">>), T("QP_ARRAY1")>> \o Pt(-1, 5),
      \* a value of an unsupported type, after a good point
      <<T("QP_MAP1"), RawObj(<<"b">>), T("QP_ARRAY2")>> \o Pt(1, 5)
          \o <<T("QP_ARRAY2"), IntObj(2), T("QP_NULL")>>,
      \* neither map nor array
      <<IntObj(1)>>,
      <<>>,
      \* objects after the close of the map
      <<T("QP_MAP_OPEN"), RawObj(<<"b">>), T("QP_ARRAY_OPEN")>> \o Pt(1, 5)
          \o <<T("QP_ARRAY_CLOSE"), T("QP_MAP_CLOSE"), IntObj(3)>>,
      \* a points array whose first member is a string
      <<T("QP_MAP1"), RawObj(<<"a">>), T("QP_ARRAY2"), RawObj(<<"x">>)>>
          \o Pt(1, 5),
      \* a points array whose last member is an integer
      <<T("QP_MAP1"), RawObj(<<"a">>), T("QP_ARRAY2")>> \o Pt(1, 5)
          \o <<IntObj(7)>>,
      \* array form with the keys "name" and "point"
      <<T("QP_ARRAY1"), T("QP_MAP2"), RawObj(STR_name), RawObj(<<"b">>),
        RawObj(<<"p", "o", "i", "n", "t">>), T("QP_ARRAY1")>> \o Pt(1, 5),
      \* array form with the keys "names" and "points"
      <<T("QP_ARRAY1"), T("QP_MAP2"), RawObj(STR_name \o <<"s">>),
        RawObj(<<"a">>), RawObj(STR_points), T("QP_ARRAY1")>> \o Pt(1, 5) }

\* Packets with validation faults: the batch of two series of MaxPoints
\* points, each series with at most one fault, in three wire forms.
FaultPlans ==
    {[kind |-> k, at |-> 0] : k \in {"ok", "not_array", "empty"}}
        \cup {[kind |-> k, at |-> j] :
                 k \in {"ts_type", "ts_range", "value"}, j \in 1..MaxPoints}

FaultyPoint(p, kind) ==
    CASE kind = "ts_type" -> <<T("QP_ARRAY2"), RawObj(<<"x">>), p.val>>
      [] kind = "ts_range" -> <<T("QP_ARRAY2"), IntObj(TS_LIMIT), p.val>>
      [] kind = "value" -> <<T("QP_ARRAY2"), IntObj(p.ts), T("QP_NULL")>>
      [] OTHER -> EncPoint(p)

FaultyPoints(pts, plan) ==
    CASE plan.kind = "not_array" -> <<IntObj(5)>>
      [] plan.kind = "empty" -> Container("array", TRUE, 0, <<>>)
      [] OTHER ->
            Container("array", TRUE, Len(pts),
                      Flatten([j \in 1..Len(pts) |->
                                  FaultyPoint(pts[j], IF j = plan.at
                                                      THEN plan.kind
                                                      ELSE "ok")]))

FaultBatch == BatchOf(<<<<<<"a">>, MaxPoints>>, <<<<"b">>, MaxPoints>>>>)

FaultyMap(b, plans) ==
    Container("map", TRUE, Len(b),
              Flatten([i \in 1..Len(b) |->
                          <<RawObj(b[i].name)>>
                              \o FaultyPoints(b[i].points, plans[i])]))

FaultyArray(b, plans, order) ==
    Container("array", TRUE, Len(b),
              Flatten([i \in 1..Len(b) |->
                  IF order = "NP"
                  THEN <<TypeObj("QP_MAP2"), RawObj(STR_name),
                         RawObj(b[i].name), RawObj(STR_points)>>
                           \o FaultyPoints(b[i].points, plans[i])
                  ELSE <<TypeObj("QP_MAP2"), RawObj(STR_points)>>
                           \o FaultyPoints(b[i].points, plans[i])
                           \o <<RawObj(STR_name), RawObj(b[i].name)>>]))

FaultStreams ==
    UNION {{FaultyMap(FaultBatch, pl), FaultyArray(FaultBatch, pl, "NP"),
            FaultyArray(FaultBatch, pl, "PN")} :
              pl \in {q \in [1..Len(FaultBatch) -> FaultPlans] :
                         \E i \in 1..Len(FaultBatch) : q[i].kind # "ok"}}


(***************************************************************************)
(* The insert job.                                                         *)
(***************************************************************************)
NULL == <<>>
NoPromises == [state |-> "none", size |-> 0, list |-> <<>>]
NoForward == [state |-> "none", packer |-> <<>>]
NoInsert ==
    [state |-> "none", ref |-> 0, flags |-> {}, npoints |-> 0,
     packer_size |-> 0, packer |-> <<>>]

\* siridb_insert_new: one packer per pool, each holding QP_MAP_OPEN.
siridb_insert_new ==
    [state |-> "live", ref |-> 1,
     flags |-> IF reindexing THEN {"TEST"} ELSE {},
     npoints |-> 0,
     packer_size |-> pools_len,
     packer |-> [n \in 0..(pools_len - 1) |-> <<TypeObj("QP_MAP_OPEN")>>]]

\* Variant: the packers are walked by the live pool count.
siridb_insert_free_live(ins) ==
    [ins EXCEPT !.state = "freed",
                !.packer = [n \in 0..(pools_len - 1) |-> NULL]]

\* siridb_insert_free: frees the packers still held and the job.
siridb_insert_free(ins) ==
    [ins EXCEPT !.state = "freed",
                !.packer = [n \in DOMAIN ins.packer |-> NULL]]

ErrorPkg(code) ==
    [tp |-> "CPROTO_ERR_INSERT", key |-> "error_msg",
     msg |-> [kind |-> "insert_err", arg |-> code]]

(***************************************************************************)
(* The request handler: create the job, decode and repack the packet, and  *)
(* either answer with the decode error or bind the point count, lock the   *)
(* client and post the dispatch task (siridb_insert_points_to_pools).      *)
(***************************************************************************)
\* Variant: the client is locked before the handle is allocated.
siridb_insert_points_to_pools_locked(job, npoints, handleOK) ==
    /\ client' = [client EXCEPT !.locks = @ + 1]
    /\ IF ~handleOK
       THEN /\ siri_err' = TRUE
            /\ insert' = siridb_insert_free(job)
            /\ phase' = "failed"
            /\ UNCHANGED responses
       ELSE /\ insert' = [job EXCEPT !.npoints = npoints]
            /\ phase' = "posted"
            /\ UNCHANGED <<siri_err, responses>>

\* siridb_insert_points_to_pools: handleOK tells whether the async handle
\* could be allocated; if not, the signal is raised and -1 is returned, and
\* the caller frees the job.
siridb_insert_points_to_pools(job, npoints, handleOK) ==
    IF ~handleOK
    THEN /\ siri_err' = TRUE
         /\ insert' = siridb_insert_free(job)
         /\ phase' = "failed"
         /\ UNCHANGED <<client, responses>>
    ELSE /\ insert' = [job EXCEPT !.npoints = npoints]
         /\ client' = [client EXCEPT !.locks = @ + 1]
         /\ phase' = "posted"
         /\ UNCHANGED <<siri_err, responses>>

\* The job could not be created: siridb_insert_new raises the signal.
OnInsertNoJob ==
    /\ phase = "received"
    /\ siri_err' = TRUE
    /\ phase' = "failed"
    /\ UNCHANGED <<dbvars, reqvars, jobvars, insert, rc, client, responses>>

OnInsert(tmpOK, failAt) ==
    /\ phase = "received"
    /\ \E d \in {siridb_insert_assign_pools(
                     stream, siridb_insert_new.packer, siri_err, tmpOK,
                     failAt)} :
         \E job \in {[siridb_insert_new EXCEPT !.packer = d.packer]} :
           /\ rc' = d.rc
           /\ IF d.rc < 0
              THEN /\ responses' = Append(responses, ErrorPkg(d.rc))
                   /\ insert' = siridb_insert_free(job)
                   /\ siri_err' = d.err
                   /\ phase' = "rejected"
                   /\ UNCHANGED client
              ELSE \E handleOK \in BOOLEAN :
                       siridb_insert_points_to_pools(job, d.rc, handleOK)
    /\ UNCHANGED <<dbvars, reqvars, jobvars>>

\* The scratch packer is only allocated for the array form.
TmpOutcomes == IF qp_is_array(ObjAt(stream, 1).tp) THEN BOOLEAN ELSE {TRUE}

(***************************************************************************)
(* Initial states: a database configuration and a received client packet.  *)
(***************************************************************************)
InitPools ==
    /\ pools_len \in 1..MaxPools
    /\ own_pool \in 0..(pools_len - 1)
    /\ lookup \in [0..(SIRIDB_LOOKUP_SZ - 1) -> 0..(pools_len - 1)]
    /\ reindexing \in IF pools_len > 1 THEN BOOLEAN ELSE {FALSE}
    /\ prev_lookup \in IF reindexing
                       THEN [0..(SIRIDB_LOOKUP_SZ - 1) -> 0..(pools_len - 2)]
                       ELSE {NULL}
    /\ series \in SUBSET Names
    /\ siri_err = FALSE

InitReplica ==
    /\ replica \in BOOLEAN
    /\ initsync \in IF replica THEN BOOLEAN ELSE {FALSE}
    /\ server_id \in IF replica THEN {0, 1} ELSE {0}

NoReplica ==
    /\ replica = FALSE
    /\ initsync = FALSE
    /\ server_id = 0

InitJob ==
    /\ phase = "received"
    /\ insert = NoInsert
    /\ rc = 0
    /\ client = [locks |-> 0, unlocks |-> 0]
    /\ responses = <<>>
    /\ received_points = 0
    /\ storage = <<>>
    /\ promises = NoPromises
    /\ pending = {}
    /\ sends = <<>>
    /\ replicated = <<>>
    /\ forward = NoForward
    /\ events = <<>>

\* The decoder run on every wire form of every batch.
InitAssign ==
    /\ InitPools
    /\ NoReplica
    /\ InitJob
    /\ \/ /\ batch \in Batches
          /\ stream \in MapStreams(batch) \cup ArrayStreams(batch)
          /\ wellformed = TRUE
       \/ /\ batch = <<>>
          /\ stream \in OddStreams \cup FaultStreams
          /\ wellformed = FALSE

NextAssign ==
    \/ OnInsertNoJob
    \/ \E tmpOK \in TmpOutcomes, failAt \in 0..MaxFailAt :
           OnInsert(tmpOK, failAt)

SpecAssign == InitAssign /\ [][NextAssign]_vars


(***************************************************************************)
(* Local apply.  The state of one run: the unpacker (pos, tp, obj), the    *)
(* series index, the calls made to the storage engine, the signal, the     *)
(* Forward job's packers, the events in program order, and the number of   *)
(* engine calls made so far with the one that fails (0: none).             *)
(***************************************************************************)
\* qp_is_raw_term: a raw object that ends with the terminator.
qp_is_raw_term(o) ==
    o.tp = "QP_RAW" /\ Len(o.raw) > 0 /\ o.raw[Len(o.raw)] = NUL

\* The C string a raw object holds: its bytes up to the first terminator.
RECURSIVE CStr(_)
CStr(raw) ==
    IF raw = <<>> \/ Head(raw) = NUL THEN <<>>
    ELSE <<Head(raw)>> \o CStr(Tail(raw))

\* The position after the object that starts at position p of stream s.
RECURSIVE ObjEnd(_, _)
RECURSIVE SkipN(_, _, _)
RECURSIVE SkipToClose(_, _)
SkipN(s, p, n) == IF n = 0 THEN p ELSE SkipN(s, ObjEnd(s, p), n - 1)
SkipToClose(s, p) ==
    IF p > Len(s) THEN p
    ELSE IF s[p].tp \in {"QP_ARRAY_CLOSE", "QP_MAP_CLOSE"} THEN p + 1
    ELSE SkipToClose(s, ObjEnd(s, p))
ObjEnd(s, p) ==
    IF p > Len(s) THEN p
    ELSE LET tp == s[p].tp
         IN  CASE tp \in {"QP_ARRAY_OPEN", "QP_MAP_OPEN"} ->
                      SkipToClose(s, p + 1)
               [] tp = "QP_ARRAY1" -> SkipN(s, p + 1, 1)
               [] tp = "QP_ARRAY2" -> SkipN(s, p + 1, 2)
               [] tp = "QP_ARRAY3" -> SkipN(s, p + 1, 3)
               [] tp = "QP_ARRAY4" -> SkipN(s, p + 1, 4)
               [] tp = "QP_ARRAY5" -> SkipN(s, p + 1, 5)
               [] tp = "QP_MAP1" -> SkipN(s, p + 1, 2)
               [] tp = "QP_MAP2" -> SkipN(s, p + 1, 4)
               [] tp = "QP_MAP3" -> SkipN(s, p + 1, 6)
               [] tp = "QP_MAP4" -> SkipN(s, p + 1, 8)
               [] tp = "QP_MAP5" -> SkipN(s, p + 1, 10)
               [] OTHER -> p + 1

\* Variant: the points array of a skipped series is not stepped over.
qp_skip_next_none(s, a) == a

\* qp_skip_next(unpacker)
qp_skip_next(s, a) == [a EXCEPT !.pos = ObjEnd(s, a.pos)]

\* Variant: only the first object (the header of the array) is copied.
qp_packer_extend_fu_shallow(s, a, pool) ==
    [a EXCEPT !.fwd[pool] = @ \o SubSeq(s, a.pos, a.pos),
              !.pos = ObjEnd(s, a.pos)]

\* qp_packer_extend_fu(forward->packer[pool], unpacker): copy the next
\* object of the unpacker, as it is, and step over it.
qp_packer_extend_fu(s, a, pool) ==
    [a EXCEPT !.fwd[pool] = @ \o SubSeq(s, a.pos, ObjEnd(s, a.pos) - 1),
              !.pos = ObjEnd(s, a.pos)]

\* A call to the storage engine or the series index that can fail; the
\* call numbered failAt fails and raises the signal.
EngineFails(a) == a.calls + 1 = a.failAt
EngineCall(a) ==
    [a EXCEPT !.calls = @ + 1, !.err = @ \/ EngineFails(a)]

Event(a, e) == [a EXCEPT !.ev = Append(@, e)]

\* Variant: the engine files each new point before the ones it holds.
siridb_series_add_point_front(a, name, ts, val) ==
    IF EngineFails(a)
    THEN EngineCall(a)
    ELSE Event([EngineCall(a) EXCEPT
                   !.storage = <<[name |-> name, ts |-> ts, val |-> val]>>
                                   \o @],
               "add_point")

\* siridb_series_add_point(siridb, series, ts, val); name is the series.
siridb_series_add_point(a, name, ts, val) ==
    IF EngineFails(a)
    THEN EngineCall(a)
    ELSE Event([EngineCall(a) EXCEPT
                   !.storage = Append(@, [name |-> name, ts |-> ts,
                                          val |-> val])],
               "add_point")

\* siridb_series_new (and ct_add): the series enters the index.
siridb_series_new(a, name) ==
    IF EngineFails(a)
    THEN EngineCall(a)
    ELSE Event([EngineCall(a) EXCEPT !.series = @ \cup {name}],
               "series_new")

\* The inner while loop of local apply: the points after the first.
RECURSIVE apply_more_points(_, _, _)
apply_more_points(s, a, name) ==
    LET added(a2) ==
            IF a2.err THEN a2 ELSE apply_more_points(s, a2, name)
        value(ts, val) ==
            added(siridb_series_add_point(val, name, ts.obj.num, val.obj))
        point(ts) == value(ts, qp_next(s, ts))
        next(a1) ==
            IF a1.tp # "QP_ARRAY2" THEN a1 ELSE point(qp_next(s, a1))
    IN  next(qp_next(s, a))

\* Variant: the points after the first are added although the first
\* add_point failed.
apply_points_heedless(s, a, name) ==
    LET closed(a2) ==
            IF a2.tp = "QP_ARRAY_CLOSE" THEN qp_next(s, a2) ELSE a2
        added(a1) == closed(apply_more_points(s, a1, name))
        value(ts, val) ==
            added(siridb_series_add_point(val, name, ts.obj.num, val.obj))
        point(ts) == value(ts, qp_next(s, ts))
    IN  point(qp_next(s, qp_next_null(s, qp_next_null(s, a))))

\* The points of one series, from the array open on, and the step to the
\* next series name.
apply_points(s, a, name) ==
    LET closed(a2) ==
            IF a2.tp = "QP_ARRAY_CLOSE" THEN qp_next(s, a2) ELSE a2
        added(a1) ==
            IF a1.err THEN a1 ELSE closed(apply_more_points(s, a1, name))
        value(ts, val) ==
            added(siridb_series_add_point(val, name, ts.obj.num, val.obj))
        point(ts) == value(ts, qp_next(s, ts))
    IN  point(qp_next(s, qp_next_null(s, qp_next_null(s, a))))

\* The while loop of siridb_insert_local (plain variant).
RECURSIVE insert_local_loop(_, _)
insert_local_loop(s, a) ==
    IF a.err \/ ~qp_is_raw_term(a.obj) THEN a
    ELSE LET points(a3) ==
                 IF a3.err THEN a3 ELSE insert_local_loop(s, a3)
             found(a2, name) ==
                 IF a2.err THEN [a2 EXCEPT !.pos = @ + 4]
                 ELSE points(apply_points(s, a2, name))
             sure(a1, name) ==                      \* after ct_get_sure
                 IF a1.err THEN a1
                 ELSE found(IF name \in a1.series THEN a1
                            ELSE siridb_series_new(a1, name),
                            name)
         IN  sure(EngineCall(a), CStr(a.obj.raw))

\* siridb_lookup_sn(lookup, series_name)
siridb_lookup_sn(table, name) == table[ByteSum(name) % SIRIDB_LOOKUP_SZ]

\* siridb_series_server_id(series_name): the server of the pool (0 or 1)
\* that is responsible for the series.
siridb_series_server_id(name) == ByteSum(name) % 2

\* Variant: a name without a series is routed as INSERT_get_pool routes it,
\* with the previous lookup while the database is reindexing.
RECURSIVE local_test_loop_routed(_, _)
local_test_loop_routed(s, a) ==
    IF a.err \/ ~qp_is_raw_term(a.obj) THEN a
    ELSE LET again(a2) ==
                 IF a2.err THEN a2 ELSE local_test_loop_routed(s, a2)
             created(a1, name) ==
                 IF a1.err THEN a1 ELSE again(apply_points(s, a1, name))
             forwarded(a1, pool) ==
                 local_test_loop_routed(
                     s, qp_next(s, Event(qp_packer_extend_fu(s, a1, pool),
                                         "forward")))
             route(name, pool) ==
                 IF name \in a.series
                 THEN again(apply_points(s, a, name))
                 ELSE IF pool = own_pool
                 THEN created(siridb_series_new(a, name), name)
                 ELSE IF ~replica \/ siridb_series_server_id(name) = server_id
                 THEN forwarded([a EXCEPT !.do_forward = TRUE,
                                          !.fwd[pool] = Append(@, a.obj)],
                                pool)
                 ELSE local_test_loop_routed(
                          s, qp_next(s, Event(qp_skip_next(s, a), "skip")))
             to(name) ==
                 route(name,
                       IF ~reindexing
                          \/ siridb_lookup_sn(prev_lookup, name) = own_pool
                       THEN siridb_lookup_sn(lookup, name)
                       ELSE siridb_lookup_sn(prev_lookup, name))
         IN  to(CStr(a.obj.raw))

\* The while loop of INSERT_local_test.
RECURSIVE local_test_loop(_, _)
local_test_loop(s, a) ==
    IF a.err \/ ~qp_is_raw_term(a.obj) THEN a
    ELSE LET again(a2) ==
                 IF a2.err THEN a2 ELSE local_test_loop(s, a2)
             created(a1, name) ==
                 IF a1.err THEN a1 ELSE again(apply_points(s, a1, name))
             forwarded(a1, pool) ==
                 local_test_loop(
                     s, qp_next(s, Event(qp_packer_extend_fu(s, a1, pool),
                                         "forward")))
             route(name, pool) ==
                 IF name \in a.series
                 THEN again(apply_points(s, a, name))
                 ELSE IF pool = own_pool
                 THEN created(siridb_series_new(a, name), name)
                 ELSE IF ~replica \/ siridb_series_server_id(name) = server_id
                 THEN forwarded([a EXCEPT !.do_forward = TRUE,
                                          !.fwd[pool] = Append(@, a.obj)],
                                pool)
                 ELSE local_test_loop(
                          s, qp_next(s, Event(qp_skip_next(s, a), "skip")))
             to(name) == route(name, siridb_lookup_sn(lookup, name))
         IN  to(CStr(a.obj.raw))

\* The state local apply starts from.
LocalState(failAt) ==
    [pos |-> 1, tp |-> "QP_END", obj |-> TypeObj("QP_END"),
     series |-> series, storage |-> storage, err |-> siri_err,
     calls |-> 0, failAt |-> failAt,
     fwd |-> [n \in 0..(pools_len - 1) |-> <<TypeObj("QP_MAP_OPEN")>>],
     do_forward |-> FALSE, fwd_state |-> "none", ev |-> events]

\* Variant: a critical error in the loop returns at once, past the unlocks.
INSERT_local_test_leaky(s, a, allocOK, handleOK) ==
    IF ~allocOK THEN [a EXCEPT !.err = TRUE]
    ELSE LET unlocked(a3) ==
                 IF ~a3.do_forward
                 THEN [a3 EXCEPT !.fwd_state = "freed"]
                 ELSE IF ~handleOK \/ a3.err
                 THEN [a3 EXCEPT !.fwd_state = "freed",
                                 !.err = @ \/ ~handleOK]
                 ELSE Event([a3 EXCEPT !.fwd_state = "posted"],
                            "forward_posted")
             tested(a2) ==
                 IF a2.err THEN [a2 EXCEPT !.fwd_state = "freed"]
                 ELSE unlocked(Event(Event(a2, "unlock_series"),
                                     "unlock_shards"))
             locked(a1) ==
                 tested(local_test_loop(s, qp_next(s, qp_next_null(s, a1))))
         IN  locked(Event(Event(a, "lock_series"), "lock_shards"))

\* Variant: the forward task is posted although the signal is raised.
INSERT_local_test_posting(s, a, allocOK, handleOK) ==
    IF ~allocOK THEN [a EXCEPT !.err = TRUE]
    ELSE LET unlocked(a3) ==
                 IF ~a3.do_forward
                 THEN [a3 EXCEPT !.fwd_state = "freed"]
                 ELSE IF ~handleOK
                 THEN [a3 EXCEPT !.fwd_state = "freed", !.err = TRUE]
                 ELSE Event([a3 EXCEPT !.fwd_state = "posted"],
                            "forward_posted")
             tested(a2) ==
                 unlocked(Event(Event(a2, "unlock_series"), "unlock_shards"))
             locked(a1) ==
                 tested(local_test_loop(s, qp_next(s, qp_next_null(s, a1))))
         IN  locked(Event(Event(a, "lock_series"), "lock_shards"))

\* allocOK: siridb_forward_new and the qp objects could be allocated;
\* handleOK: the async handle of the forward task could be allocated.
INSERT_local_test(s, a, allocOK, handleOK) ==
    IF ~allocOK THEN [a EXCEPT !.err = TRUE]
    ELSE LET unlocked(a3) ==
                 IF ~a3.do_forward
                 THEN [a3 EXCEPT !.fwd_state = "freed"]
                 ELSE IF ~handleOK \/ a3.err
                 THEN [a3 EXCEPT !.fwd_state = "freed",
                                 !.err = @ \/ ~handleOK]
                 ELSE Event([a3 EXCEPT !.fwd_state = "posted"],
                            "forward_posted")
             tested(a2) ==
                 unlocked(Event(Event(a2, "unlock_series"), "unlock_shards"))
             locked(a1) ==
                 tested(local_test_loop(s, qp_next(s, qp_next_null(s, a1))))
         IN  locked(Event(Event(a, "lock_series"), "lock_shards"))

\* Variant: only the TEST flag selects the test variant.
siridb_insert_local_flag_only(s, flags, a, allocOK, handleOK) ==
    IF "TEST" \in flags
    THEN INSERT_local_test(s, a, allocOK, handleOK)
    ELSE IF ~allocOK THEN [a EXCEPT !.err = TRUE]
    ELSE LET applied(a2) ==
                 Event(Event(a2, "unlock_series"), "unlock_shards")
             locked(a1) ==
                 applied(insert_local_loop(s, qp_next(s, qp_next_null(s, a1))))
         IN  locked(Event(Event(a, "lock_series"), "lock_shards"))

siridb_insert_local(s, flags, a, allocOK, handleOK) ==
    IF "TEST" \in flags \/ (reindexing /\ "TESTED" \notin flags)
    THEN INSERT_local_test(s, a, allocOK, handleOK)
    ELSE IF ~allocOK THEN [a EXCEPT !.err = TRUE]
    ELSE LET applied(a2) ==
                 Event(Event(a2, "unlock_series"), "unlock_shards")
             locked(a1) ==
                 applied(insert_local_loop(s, qp_next(s, qp_next_null(s, a1))))
         IN  locked(Event(Event(a, "lock_series"), "lock_shards"))

(***************************************************************************)
(* The dispatcher.                                                         *)
(***************************************************************************)
\* Variant: a packer counts as empty when it holds the header only.
packer_is_empty_header(buf) == Len(buf) = 0
\* A packer that holds the package header and QP_MAP_OPEN only.
packer_is_empty(buf) == Len(buf) = 1

\* Variant: the TEST flag does not choose the tag.
ServerTag_untested(flags) ==
    IF "TESTED" \in flags THEN "BPROTO_INSERT_TESTED_SERVER"
    ELSE "BPROTO_INSERT_SERVER"

ServerTag(flags) ==
    IF "TEST" \in flags THEN "BPROTO_INSERT_TEST_SERVER"
    ELSE IF "TESTED" \in flags THEN "BPROTO_INSERT_TESTED_SERVER"
    ELSE "BPROTO_INSERT_SERVER"

PoolTag(flags) ==
    IF "TEST" \in flags THEN "BPROTO_INSERT_TEST_POOL"
    ELSE "BPROTO_INSERT_POOL"

\* The series entries of a buffer from position p on, each with its name.
RECURSIVE EntriesFrom(_, _)
EntriesFrom(buf, p) ==
    IF p > Len(buf) \/ buf[p].tp # "QP_RAW" THEN <<>>
    ELSE <<[name |-> CStr(buf[p].raw),
            objs |-> SubSeq(buf, p, ObjEnd(buf, p + 1) - 1)]>>
             \o EntriesFrom(buf, ObjEnd(buf, p + 1))

\* siridb_replicate_pkg_filter: the package for a replica that is still
\* synchronising holds the series the filter keeps; "null" is no package.
FilterOutcomes ==
    {[null |-> TRUE, names |-> {}]}
        \cup {[null |-> FALSE, names |-> k] : k \in SUBSET Names}
siridb_replicate_pkg_filter(buf, flags, keep) ==
    LET pack(kept) ==
            [tp |-> ServerTag(flags),
             data |-> <<TypeObj("QP_MAP_OPEN")>>
                          \o Flatten([i \in 1..Len(kept) |-> kept[i].objs])]
    IN  pack(SelectSeq(EntriesFrom(buf, 2), LAMBDA e : e.name \in keep.names))

\* The outcomes of the allocations and collaborators of one dispatch:
\* alloc names the allocation of local apply that fails, if any (the
\* unpacker, the qp objects or Forward job, the forward task's handle).
Outcome(alloc, failAt, rejected, keep) ==
    [unpOK |-> alloc # "unpacker", allocOK |-> alloc # "local",
     handleOK |-> alloc # "handle",
     failAt |-> failAt, rejected |-> rejected, keep |-> keep]

\* Local apply of a package body, when its unpacker could be allocated.
apply_local(x, data, o) ==
    IF ~o.unpOK
    THEN [x EXCEPT !.loc = Event([@ EXCEPT !.err = TRUE], "no_unpacker")]
    ELSE [x EXCEPT !.loc = Event(
              siridb_insert_local(
                  data, insert.flags,
                  [Event(x.loc, "local_begin") EXCEPT !.pos = 1],
                  o.allocOK, o.handleOK),
              "local_end")]

\* The own pool's non-empty buffer.
dispatch_own(x, n, o) ==
    IF replica
    THEN LET replicate(pkg) ==
                 apply_local(
                     [x EXCEPT !.replicated = Append(@, pkg),
                               !.loc = Event(@, "replicate")],
                     pkg.data, o)
         IN  IF initsync /\ o.keep.null
             THEN [x EXCEPT !.loc = Event(@, "no_pkg")]
             ELSE replicate(IF ~initsync
                            THEN [tp |-> ServerTag(insert.flags),
                                  data |-> x.packer[n]]
                            ELSE siridb_replicate_pkg_filter(
                                     x.packer[n], insert.flags, o.keep))
    ELSE apply_local(x, x.packer[n], o)

\* Variant: a send that the transport rejects is counted as well.
dispatch_remote_counting(x, n, o) ==
    LET sent(x1, ok) ==
            IF ok
            THEN [x1 EXCEPT !.pool_count = @ + 1, !.pending = @ \cup {n}]
            ELSE [x1 EXCEPT !.pool_count = @ + 1]
        send(pkg, ok) ==
            sent([x EXCEPT !.sends = Append(@, [pool |-> n, pkg |-> pkg,
                                                accepted |-> ok]),
                           !.loc = Event(@, "send")],
                 ok)
    IN  send([tp |-> PoolTag(insert.flags), data |-> x.packer[n]],
             n \notin o.rejected)

\* Variant: a remote pool's buffer is always sent as a plain insert.
dispatch_remote_plain(x, n, o) ==
    LET sent(x1, ok) ==
            IF ok
            THEN [x1 EXCEPT !.pool_count = @ + 1, !.pending = @ \cup {n}]
            ELSE x1
        send(pkg, ok) ==
            sent([x EXCEPT !.sends = Append(@, [pool |-> n, pkg |-> pkg,
                                                accepted |-> ok]),
                           !.loc = Event(@, "send")],
                 ok)
    IN  send([tp |-> "BPROTO_INSERT_POOL", data |-> x.packer[n]],
             n \notin o.rejected)

\* A remote pool's non-empty buffer.
dispatch_remote(x, n, o) ==
    LET sent(x1, ok) ==
            IF ok
            THEN [x1 EXCEPT !.pool_count = @ + 1, !.pending = @ \cup {n}]
            ELSE x1
        send(pkg, ok) ==
            sent([x EXCEPT !.sends = Append(@, [pool |-> n, pkg |-> pkg,
                                                accepted |-> ok]),
                           !.loc = Event(@, "send")],
                 ok)
    IN  send([tp |-> PoolTag(insert.flags), data |-> x.packer[n]],
             n \notin o.rejected)

\* Variant: the slot of a buffer is not set to NULL after its hand-off.
RECURSIVE dispatch_loop_keeping(_, _, _)
dispatch_loop_keeping(x, n, o) ==
    IF n >= insert.packer_size THEN x
    ELSE dispatch_loop_keeping(
             IF packer_is_empty(x.packer[n]) THEN x
             ELSE IF n = own_pool THEN dispatch_own(x, n, o)
             ELSE dispatch_remote(x, n, o),
             n + 1, o)

\* The for loop of INSERT_points_to_pools.
RECURSIVE dispatch_loop(_, _, _)
dispatch_loop(x, n, o) ==
    IF n >= insert.packer_size THEN x
    ELSE dispatch_loop(
             [IF packer_is_empty(x.packer[n]) THEN x
              ELSE IF n = own_pool THEN dispatch_own(x, n, o)
              ELSE dispatch_remote(x, n, o)
                  EXCEPT !.packer[n] = NULL],
             n + 1, o)

DispatchState(failAt) ==
    [packer |-> insert.packer, pool_count |-> 0, pending |-> {},
     sends |-> sends, replicated |-> replicated, loc |-> LocalState(failAt)]

(***************************************************************************)
(* The completion callback.                                                *)
(***************************************************************************)
NullPromise == [server |-> -1, pkg |-> "NULL_PROMISE"]
CriticalMsg == [kind |-> "critical", arg |-> own_pool]
PeerMsg(server) == [kind |-> "peer", arg |-> server]
InsertedMsg(n) == [kind |-> "inserted", arg |-> n]

\* Variant: a response with another tag, or none, counts as accepted.
on_response_step_lenient(r, promise, err) ==
    IF err \/ promise = NullPromise
    THEN [tp |-> "CPROTO_ERR_INSERT", msg |-> CriticalMsg]
    ELSE r

\* Variant: the message of the first failure is kept.
on_response_step_first(r, promise, err) ==
    IF r.tp = "CPROTO_ERR_INSERT" THEN r
    ELSE IF err \/ promise = NullPromise
    THEN [tp |-> "CPROTO_ERR_INSERT", msg |-> CriticalMsg]
    ELSE IF promise.pkg # "BPROTO_ACK_INSERT"
    THEN [tp |-> "CPROTO_ERR_INSERT", msg |-> PeerMsg(promise.server)]
    ELSE r

\* One pass of the for loop over the promises: r holds tp and msg.
on_response_step(r, promise, err) ==
    IF err \/ promise = NullPromise
    THEN [tp |-> "CPROTO_ERR_INSERT", msg |-> CriticalMsg]
    ELSE IF promise.pkg # "BPROTO_ACK_INSERT"
    THEN [tp |-> "CPROTO_ERR_INSERT", msg |-> PeerMsg(promise.server)]
    ELSE r

RECURSIVE on_response_loop(_, _, _, _)
on_response_loop(r, list, i, err) ==
    IF i > Len(list) THEN r
    ELSE on_response_loop(on_response_step(r, list[i], err), list, i + 1, err)

\* The response package INSERT_on_response builds from the promises.
ResponsePkg(list, err, npoints) ==
    LET r == on_response_loop(
                 [tp |-> "CPROTO_RES_INSERT", msg |-> InsertedMsg(0)],
                 list, 1, err)
    IN  IF r.tp = "CPROTO_ERR_INSERT"
        THEN [tp |-> r.tp, key |-> "error_msg", msg |-> r.msg]
        ELSE [tp |-> r.tp, key |-> "success_msg",
              msg |-> InsertedMsg(npoints)]

\* Variant: the response is sent when the packet is built and again when
\* the handle is closed.
INSERT_on_response_twice(list, err, ev, packerOK) ==
    \E pkg \in {ResponsePkg(list, err, insert.npoints)} :
        /\ responses' = IF packerOK THEN responses \o <<pkg, pkg>>
                        ELSE responses
        /\ received_points' = received_points
        /\ siri_err' = (err \/ ~packerOK)
        /\ events' = ev \o <<"response", "uv_close">>
        /\ phase' = "closing"

\* Variant: the points are counted whatever the response is.
INSERT_on_response_counts(list, err, ev, packerOK) ==
    \E pkg \in {ResponsePkg(list, err, insert.npoints)} :
        /\ IF packerOK
           THEN /\ responses' = Append(responses, pkg)
                /\ received_points' = received_points + insert.npoints
                /\ siri_err' = err
                /\ events' = ev \o <<"response", "uv_close">>
           ELSE /\ siri_err' = TRUE
                /\ events' = ev \o <<"no_packer", "uv_close">>
                /\ UNCHANGED <<responses, received_points>>
        /\ phase' = "closing"

\* INSERT_on_response(promises, handle): packerOK tells whether the packer
\* of the response could be allocated.  Then the handle is closed.
INSERT_on_response(list, err, ev, packerOK) ==
    \E pkg \in {ResponsePkg(list, err, insert.npoints)} :
        /\ IF packerOK
           THEN /\ responses' = Append(responses, pkg)
                /\ received_points' =
                       IF pkg.tp = "CPROTO_RES_INSERT"
                       THEN received_points + insert.npoints
                       ELSE received_points
                /\ siri_err' = err
                /\ events' = ev \o <<"response", "uv_close">>
           ELSE /\ siri_err' = TRUE
                /\ events' = ev \o <<"no_packer", "uv_close">>
                /\ UNCHANGED <<responses, received_points>>
        /\ phase' = "closing"

(***************************************************************************)
(* The callbacks of the event loop.                                        *)
(***************************************************************************)
OwnBusy ==
    /\ own_pool < insert.packer_size
    /\ ~packer_is_empty(insert.packer[own_pool])

RemoteBusy ==
    {n \in 0..(insert.packer_size - 1) :
        n # own_pool /\ ~packer_is_empty(insert.packer[n])}

\* The outcomes that can make a difference to this dispatch.
Outcomes ==
    {Outcome(al, f, rj, k) :
        al \in (IF OwnBusy THEN {"ok", "unpacker", "local", "handle"}
                ELSE {"ok"}),
        f \in (IF OwnBusy THEN 0..MaxFailAt ELSE {0}),
        rj \in SUBSET RemoteBusy,
        k \in (IF OwnBusy /\ replica /\ initsync THEN FilterOutcomes
               ELSE {[null |-> FALSE, names |-> Names]})}

\* INSERT_points_to_pools when sirinet_promises_new returns NULL: the
\* signal is raised and the callback returns.
PointsToPoolsNoPromises ==
    /\ phase = "posted"
    /\ siri_err' = TRUE
    /\ phase' = "returned"
    /\ events' = Append(events, "no_promises")
    /\ UNCHANGED <<dbvars, reqvars, insert, rc, client, responses,
                   received_points, storage, promises, pending, sends,
                   replicated, forward>>

\* INSERT_points_to_pools: the dispatch loop, the adjustment of the
\* aggregator's size and SIRINET_PROMISES_CHECK, which calls
\* INSERT_on_response at once when no response is awaited.
PointsToPools(o) ==
    /\ phase = "posted"
    /\ \E x \in {dispatch_loop(DispatchState(o.failAt), 0, o)} :
           /\ insert' = [insert EXCEPT !.packer = x.packer]
           /\ series' = x.loc.series
           /\ storage' = x.loc.storage
           /\ sends' = x.sends
           /\ replicated' = x.replicated
           /\ forward' = IF x.loc.fwd_state = "posted"
                         THEN [state |-> "posted", packer |-> x.loc.fwd]
                         ELSE IF x.loc.fwd_state = "freed"
                         THEN [state |-> "freed", packer |-> <<>>]
                         ELSE forward
           /\ pending' = x.pending
           /\ IF x.pool_count = 0
              THEN /\ promises' = [state |-> "done", size |-> 0,
                                   list |-> <<>>]
                   /\ \E packerOK \in BOOLEAN :
                          INSERT_on_response(<<>>, x.loc.err, x.loc.ev,
                                             packerOK)
              ELSE /\ promises' = [state |-> "live", size |-> x.pool_count,
                                   list |-> <<>>]
                   /\ siri_err' = x.loc.err
                   /\ events' = x.loc.ev
                   /\ phase' = "dispatched"
                   /\ UNCHANGED <<responses, received_points>>
    /\ UNCHANGED <<pools_len, own_pool, lookup, prev_lookup, reindexing,
                   replica, initsync, server_id, reqvars, rc, client>>

\* What a peer's promise can carry when it resolves: an acknowledgement,
\* a package with another tag, no package (a time-out), or no promise.
PromiseOutcomes(p) ==
    {[server |-> p, pkg |-> "BPROTO_ACK_INSERT"],
     [server |-> p, pkg |-> "BPROTO_ERR_INSERT"],
     [server |-> p, pkg |-> "NULL"],
     NullPromise}

\* sirinet_promises_on_response: the promise of pool p resolves; when all
\* awaited promises are in, the aggregator calls INSERT_on_response.
PeerResponse(p, promise) ==
    /\ phase = "dispatched"
    /\ p \in pending
    /\ pending' = pending \ {p}
    /\ LET list == Append(promises.list, promise)
       IN  IF Len(list) = promises.size
           THEN /\ promises' = [promises EXCEPT !.list = list,
                                                !.state = "done"]
                /\ \E packerOK \in BOOLEAN :
                       INSERT_on_response(list, siri_err,
                                          Append(events, "promise"), packerOK)
           ELSE /\ promises' = [promises EXCEPT !.list = list]
                /\ events' = Append(events, "promise")
                /\ UNCHANGED <<siri_err, phase, responses, received_points>>
    /\ UNCHANGED <<dbvars, reqvars, insert, rc, client, storage, sends,
                   replicated, forward>>

\* siri_async_close, the close callback of the handle: the last reference
\* to the job is dropped and its free_cb, INSERT_free, runs.
INSERT_free ==
    /\ phase = "closing"
    /\ insert.ref = 1
    /\ client' = [client EXCEPT !.unlocks = @ + 1]
    /\ insert' = [siridb_insert_free(insert) EXCEPT !.ref = 0]
    /\ events' = events \o <<"unlock", "free">>
    /\ phase' = "freed"
    /\ UNCHANGED <<dbvars, reqvars, siri_err, rc, responses, received_points,
                   storage, promises, pending, sends, replicated, forward>>

\* siridb_forward_points_to_pools: the task that ships the Forward job.
ForwardTask ==
    /\ forward.state = "posted"
    /\ forward' = [forward EXCEPT !.state = "shipped"]
    /\ UNCHANGED <<dbvars, reqvars, siri_err, phase, insert, rc, client,
                   responses, received_points, storage, promises, pending,
                   sends, replicated, events>>

\* A pool is added while the job is in flight: re-indexing starts, the
\* lookup in use becomes the previous lookup.
AddPool ==
    /\ phase \in {"posted", "dispatched"}
    /\ pools_len < MaxPools
    /\ ~reindexing
    /\ pools_len' = pools_len + 1
    /\ prev_lookup' = lookup
    /\ lookup' \in [0..(SIRIDB_LOOKUP_SZ - 1) -> 0..pools_len]
    /\ reindexing' = TRUE
    /\ UNCHANGED <<own_pool, series, replica, initsync, server_id, reqvars,
                   siri_err, phase, insert, rc, client, responses, jobvars>>

Init ==
    /\ InitPools
    /\ InitReplica
    /\ InitJob
    /\ batch \in JobBatches
    /\ stream = EncMap(batch, TRUE, TRUE)
    /\ wellformed = TRUE

Next ==
    \/ OnInsertNoJob
    \/ \E failAt \in 0..MaxFailAt : OnInsert(TRUE, failAt)
    \/ PointsToPoolsNoPromises
    \/ \E o \in Outcomes : PointsToPools(o)
    \/ \E p \in pending : \E promise \in PromiseOutcomes(p) :
           PeerResponse(p, promise)
    \/ INSERT_free
    \/ ForwardTask
    \/ AddPool

Spec == Init /\ [][Next]_vars

\* A job that fans out to two peers: one pool more than MaxPools, ready, no
\* replica, no re-indexing.
FanoutPools == MaxPools + 1

InitFanout ==
    /\ pools_len = FanoutPools
    /\ own_pool \in 0..(pools_len - 1)
    /\ lookup \in [0..(SIRIDB_LOOKUP_SZ - 1) -> 0..(pools_len - 1)]
    /\ reindexing = FALSE
    /\ prev_lookup = NULL
    /\ series \in SUBSET Names
    /\ siri_err = FALSE
    /\ NoReplica
    /\ InitJob
    /\ batch \in JobBatches
    /\ stream = EncMap(batch, TRUE, TRUE)
    /\ wellformed = TRUE

NextFanout ==
    \/ OnInsertNoJob
    \/ \E failAt \in 0..MaxFailAt : OnInsert(TRUE, failAt)
    \/ PointsToPoolsNoPromises
    \/ \E o \in Outcomes : PointsToPools(o)
    \/ \E p \in pending : \E promise \in PromiseOutcomes(p) :
           PeerResponse(p, promise)
    \/ INSERT_free

SpecFanout == InitFanout /\ [][NextFanout]_vars

\* The event loop runs every callback that is posted, and every awaited
\* promise resolves (a response arrives or the peer times out).
LiveSpec == SpecFanout /\ WF_vars(NextFanout)

(***************************************************************************)
(* Local apply of a package that a peer sent.  A server that receives a    *)
(* package tagged BPROTO_INSERT_TEST_POOL calls siridb_insert_local with   *)
(* INSERT_FLAG_TEST on the body, a buffer as the sender's repacker wrote   *)
(* it; the names in it were routed by the sender, with the sender's view   *)
(* of the pools.                                                           *)
(***************************************************************************)
\* The body of a peer's package for the batch b.
PeerBody(b) ==
    <<TypeObj("QP_MAP_OPEN")>>
        \o Flatten([i \in 1..Len(b) |->
                       <<RawObj(b[i].name \o <<NUL>>),
                         TypeObj("QP_ARRAY_OPEN")>>
                           \o Flatten([j \in 1..Len(b[i].points) |->
                                          EncPoint(b[i].points[j])])
                           \o <<TypeObj("QP_ARRAY_CLOSE")>>])

InitLocal ==
    /\ InitPools
    /\ InitReplica
    /\ phase = "peer_received"
    /\ insert = NoInsert
    /\ rc = 0
    /\ client = [locks |-> 0, unlocks |-> 0]
    /\ responses = <<>>
    /\ received_points = 0
    /\ storage = <<>>
    /\ promises = NoPromises
    /\ pending = {}
    /\ sends = <<>>
    /\ replicated = <<>>
    /\ forward = NoForward
    /\ events = <<>>
    /\ batch \in JobBatches \ {<<>>}
    /\ stream = PeerBody(batch)
    /\ wellformed = TRUE

\* The handler of BPROTO_INSERT_TEST_POOL: local apply with the TEST flag.
OnPeerInsert(allocOK, handleOK, failAt) ==
    /\ phase = "peer_received"
    /\ \E x \in {siridb_insert_local(
                     stream, {"TEST"},
                     Event(LocalState(failAt), "local_begin"),
                     allocOK, handleOK)} :
           /\ series' = x.series
           /\ storage' = x.storage
           /\ siri_err' = x.err
           /\ events' = Append(x.ev, "local_end")
           /\ forward' = IF x.fwd_state = "posted"
                         THEN [state |-> "posted", packer |-> x.fwd]
                         ELSE IF x.fwd_state = "freed"
                         THEN [state |-> "freed", packer |-> <<>>]
                         ELSE forward
    /\ phase' = "peer_applied"
    /\ UNCHANGED <<pools_len, own_pool, lookup, prev_lookup, reindexing,
                   replica, initsync, server_id, reqvars, insert, rc, client,
                   responses, received_points, promises, pending, sends,
                   replicated>>

NextLocal ==
    \/ \E allocOK \in BOOLEAN, handleOK \in BOOLEAN,
           failAt \in 0..MaxFailAt :
           OnPeerInsert(allocOK, handleOK, failAt)
    \/ ForwardTask

SpecLocal == InitLocal /\ [][NextLocal]_vars

(***************************************************************************)
(* Properties of the router and of the decoder / repacker.                 *)
(***************************************************************************)
Accepted == phase = "posted"

\* The entry the repacker writes for one series of a batch.
Entry(sr) ==
    <<RawObj(sr.name \o <<NUL>>), TypeObj("QP_ARRAY_OPEN")>>
        \o Flatten([j \in 1..Len(sr.points) |-> EncPoint(sr.points[j])])
        \o <<TypeObj("QP_ARRAY_CLOSE")>>

\* e occurs in buf as a run of consecutive objects.
OccursIn(e, buf) ==
    \E k \in 1..Len(buf) :
        /\ k + Len(e) - 1 <= Len(buf)
        /\ SubSeq(buf, k, k + Len(e) - 1) = e

\* The names written to a buffer, with the terminator removed.
NamesIn(buf) ==
    {SubSeq(buf[k].raw, 1, Len(buf[k].raw) - 1) :
        k \in {i \in 1..Len(buf) :
                  /\ buf[i].tp = "QP_RAW"
                  /\ i < Len(buf)
                  /\ buf[i + 1].tp = "QP_ARRAY_OPEN"}}

\* The number of (ARRAY2, ts, value) triples in a buffer.
PairsIn(buf) ==
    Cardinality({k \in 1..Len(buf) :
                    /\ buf[k].tp = "QP_ARRAY2"
                    /\ k + 2 <= Len(buf)
                    /\ buf[k + 1].tp = "QP_INT64"
                    /\ buf[k + 2].tp \in {"QP_INT64", "QP_DOUBLE", "QP_RAW"}})

RECURSIVE SumPairs(_, _)
SumPairs(packer, n) ==
    IF n < 0 THEN 0 ELSE PairsIn(packer[n]) + SumPairs(packer, n - 1)

\* The router of the specification: route(name, state).
RouteRef(raw) ==
    LET hash == ByteSum(raw) % SIRIDB_LOOKUP_SZ
    IN  IF ~reindexing THEN lookup[hash]
        ELSE IF raw \in series THEN own_pool
        ELSE IF prev_lookup[hash] = own_pool THEN lookup[hash]
        ELSE prev_lookup[hash]

\* C7: INSERT_get_pool is the reference router for every name in every
\* database state; with re-indexing, prev_lookup(n) = own and lookup(n) =
\* other, a series present locally routes to own, an absent one to other;
\* and every series of an accepted batch sits in the buffer of the pool the
\* reference router gives.
C7_RouterIsReference ==
    /\ \A n \in Names :
          /\ INSERT_get_pool(n) = RouteRef(n)
          /\ ( /\ reindexing
               /\ siridb_lookup_sn_raw(prev_lookup, n) = own_pool
               /\ siridb_lookup_sn_raw(lookup, n) # own_pool )
             => INSERT_get_pool(n) =
                    IF n \in series THEN own_pool
                    ELSE siridb_lookup_sn_raw(lookup, n)
    /\ (Accepted /\ wellformed) =>
          \A i \in 1..Len(batch) :
              batch[i].name \in NamesIn(insert.packer[RouteRef(batch[i].name)])

\* C7 witness: a job accepted while re-indexing, with one series that is
\* present locally and one that is absent, both with prev_lookup = own and
\* lookup = another pool.
C7_Witness ==
    /\ Accepted /\ wellformed /\ reindexing
    /\ \E i, j \in 1..Len(batch) :
          /\ batch[i].name \in series
          /\ batch[j].name \notin series
          /\ \A k \in {i, j} :
                /\ siridb_lookup_sn_raw(prev_lookup, batch[k].name) = own_pool
                /\ siridb_lookup_sn_raw(lookup, batch[k].name) # own_pool
          /\ batch[i].name \in NamesIn(insert.packer[own_pool])
          /\ batch[j].name \notin NamesIn(insert.packer[own_pool])

\* C8: for every series of an accepted batch the routed pool id lies in
\* [0, packer_size), and the name with all its points is appended to the
\* buffer of that pool and to no other buffer.
C8_OnePoolPerSeries ==
    (Accepted /\ wellformed) =>
        \A i \in 1..Len(batch) :
            LET pool == INSERT_get_pool(batch[i].name)
            IN  /\ pool \in 0..(insert.packer_size - 1)
                /\ \A p \in 0..(insert.packer_size - 1) :
                      OccursIn(Entry(batch[i]), insert.packer[p]) <=> p = pool

\* C8 witness: an accepted batch of two series that went to two pools.
C8_Witness ==
    /\ Accepted /\ wellformed /\ Len(batch) = 2
    /\ INSERT_get_pool(batch[1].name) # INSERT_get_pool(batch[2].name)
    /\ OccursIn(Entry(batch[2]),
                insert.packer[INSERT_get_pool(batch[2].name)])

\* What the decoder makes of the map form of the batch.
MapDecoding ==
    siridb_insert_assign_pools(
        EncMap(batch, FALSE, FALSE), siridb_insert_new.packer, FALSE, TRUE, 0)

\* C9: decoding any wire form of a well-formed batch (map, or array with
\* the keys in either order) gives the pool buffers and the point count
\* that decoding its map form gives.
C9_MapArrayEquivalent ==
    (Accepted /\ wellformed) =>
        /\ insert.packer = MapDecoding.packer
        /\ rc = MapDecoding.rc
        /\ insert.npoints = MapDecoding.rc

\* C9 witness: an accepted array form whose first element carries its
\* points before its name, with two non-empty pool buffers.
C9_Witness ==
    /\ Accepted /\ wellformed
    /\ qp_is_array(ObjAt(stream, 1).tp)
    /\ ObjAt(stream, 3) = RawObj(STR_points)
    /\ Cardinality({p \in DOMAIN insert.packer :
                       Len(insert.packer[p]) > 1}) = 2

\* C10: a non-negative result of siridb_insert_assign_pools is the number
\* of (ts, value) pairs appended to all pool buffers of the job.
C10_CountIsPairsAppended ==
    Accepted =>
        /\ rc >= 0
        /\ rc = SumPairs(insert.packer, insert.packer_size - 1)
        /\ insert.npoints = rc

\* C10 witness: three or more points accepted into two pool buffers.
C10_Witness ==
    /\ Accepted /\ rc >= 3
    /\ Cardinality({p \in DOMAIN insert.packer :
                       PairsIn(insert.packer[p]) > 0}) = 2


(***************************************************************************)
(* Properties of the dispatcher and of the completion callback.            *)
(***************************************************************************)
\* The dispatch task of the job was posted.
Posted == phase \in {"posted", "dispatched", "closing", "freed", "returned"}

\* The completion callback has run.
Completed == phase \in {"closing", "freed"}

\* The positions of an event in the trace of the job.
EventAt(e) == {i \in 1..Len(events) : events[i] = e}

\* The sends the transport accepted.
AcceptedSends == {i \in 1..Len(sends) : sends[i].accepted}

\* The collected promises without an acknowledgement.
FailedAt ==
    {i \in 1..Len(promises.list) :
        promises.list[i].pkg # "BPROTO_ACK_INSERT"}

\* The points of the job that went to the own pool's buffer.
RECURSIVE SentPairs(_)
SentPairs(i) ==
    IF i = 0 THEN 0 ELSE PairsIn(sends[i].pkg.data) + SentPairs(i - 1)
OwnPoints == insert.npoints - SentPairs(Len(sends))

C2_CriticalErrorReported ==
    (Completed /\ Len(responses) = 1 /\ siri_err) =>
        /\ responses[1].tp = "CPROTO_ERR_INSERT"
        /\ responses[1].key = "error_msg"
        /\ responses[1].msg = CriticalMsg

First(S) == CHOOSE i \in S : \A j \in S : i <= j
Last(S) == CHOOSE i \in S : \A j \in S : j <= i

\* Two or more collected promises failed and there is no critical error:
\* the signal is not raised and every promise is there.
SeveralPeersFailed ==
    /\ Completed
    /\ Len(responses) = 1
    /\ ~siri_err
    /\ \A i \in 1..Len(promises.list) : promises.list[i] # NullPromise
    /\ Cardinality(FailedAt) >= 2

\* C4: when two or more collected promises failed and there is no critical
\* error, the one error_msg names the server of the last failed peer in
\* promise order.
C4_NamesLastFailedPeer ==
    SeveralPeersFailed =>
        /\ responses[1].key = "error_msg"
        /\ responses[1].msg = PeerMsg(promises.list[Last(FailedAt)].server)

C4_Witness ==
    /\ SeveralPeersFailed
    /\ promises.list[First(FailedAt)].server
           # promises.list[Last(FailedAt)].server

\* C4 as stated: the error_msg names the first failed peer.
C4_NamesFirstFailedPeer ==
    SeveralPeersFailed =>
        /\ responses[1].key = "error_msg"
        /\ responses[1].msg = PeerMsg(promises.list[First(FailedAt)].server)

\* C5: every job whose dispatch task was posted is eventually freed: its
\* handle is closed, the client is unlocked and the job is freed, once.
C5_EventuallyFreed ==
    (phase = "posted") ~>
        /\ phase = "freed"
        /\ insert.state = "freed"
        /\ client.unlocks = 1
        /\ Cardinality(EventAt("uv_close")) = 1

\* C6: the client is locked once, when siridb_insert_points_to_pools posts
\* the dispatch task, and unlocked at most once, by INSERT_free right
\* before the job is freed; when siridb_insert_points_to_pools fails the
\* client is not locked, nothing is posted and npoints is not bound; the
\* unlocks never exceed the locks.
C6_LockDiscipline ==
    /\ client.unlocks <= client.locks
    /\ client.locks = IF Posted THEN 1 ELSE 0
    /\ client.unlocks = IF phase = "freed" THEN 1 ELSE 0
    /\ Cardinality(EventAt("unlock")) = client.unlocks
    /\ phase = "freed" =>
           /\ insert.state = "freed"
           /\ SubSeq(events, Len(events) - 1, Len(events))
                  = <<"unlock", "free">>
    /\ phase # "freed" => EventAt("free") = {}
    /\ ~Posted =>
           /\ insert.npoints = 0
           /\ insert.state # "live"
           /\ events = <<>>
           /\ promises = NoPromises

C6_Witness ==
    /\ phase = "freed"
    /\ client.locks = 1
    /\ client.unlocks = 1
    /\ insert.npoints > 0


(***************************************************************************)
(* Properties of local apply.                                              *)
(***************************************************************************)
\* Local apply has run and returned.
Applied == EventAt("local_end") # {}

\* The points of series n in the client batch, in batch order.
PointsFor(n) ==
    Flatten([i \in 1..Len(batch) |->
                IF batch[i].name = n THEN batch[i].points ELSE <<>>])

\* The points the storage engine was given for series n, in call order.
StoredFor(n) ==
    LET calls == SelectSeq(storage, LAMBDA c : c.name = n)
    IN  [i \in 1..Len(calls) |-> [ts |-> calls[i].ts, val |-> calls[i].val]]

IsPrefix(a, b) == Len(a) <= Len(b) /\ SubSeq(b, 1, Len(a)) = a

\* C11: for every series of an accepted batch, the calls of add_point for
\* the series carry its points in batch order: at any moment they are the
\* first points of the series as the client sent them, and all of them once
\* local apply has returned without a critical error for a series it
\* applies (any series it stored a point of; every series of the own pool
\* in the plain variant).
C11_PointsInBatchOrder ==
    \A n \in Names :
        /\ IsPrefix(StoredFor(n), PointsFor(n))
        /\ (Applied /\ ~siri_err /\ StoredFor(n) # <<>>) =>
               StoredFor(n) = PointsFor(n)
        /\ ( /\ Applied /\ ~siri_err /\ ~reindexing /\ ~(replica /\ initsync)
             /\ siridb_lookup_sn_raw(lookup, n) = own_pool )
           => StoredFor(n) = PointsFor(n)

\* C11 witness: one series sent twice in a batch, three points in all, all
\* stored by the plain variant.
C11_Witness ==
    /\ Applied /\ ~siri_err /\ ~reindexing
    /\ \E n \in Names :
          /\ Len(PointsFor(n)) = 3
          /\ StoredFor(n) = PointsFor(n)


(***************************************************************************)
(* Properties of validation.  The client packet is read here as the        *)
(* document its framing describes: a container's header tells how many     *)
(* members follow, an open container runs to its close marker.             *)
(***************************************************************************)
\* The decoder has run on the packet.
Decoded == phase \in {"rejected", "posted", "failed"} /\ insert.state # "none"

\* The number of objects that follow the header of a fixed-size container.
Arity(tp) ==
    CASE tp = "QP_ARRAY1" -> 1 [] tp = "QP_ARRAY2" -> 2
      [] tp = "QP_ARRAY3" -> 3 [] tp = "QP_ARRAY4" -> 4
      [] tp = "QP_ARRAY5" -> 5 [] tp = "QP_MAP1" -> 2
      [] tp = "QP_MAP2" -> 4 [] tp = "QP_MAP3" -> 6
      [] tp = "QP_MAP4" -> 8 [] tp = "QP_MAP5" -> 10
      [] OTHER -> 0

RECURSIVE MembersN(_, _, _)
MembersN(s, p, n) ==
    IF n = 0 \/ p > Len(s) THEN <<>>
    ELSE <<p>> \o MembersN(s, ObjEnd(s, p), n - 1)

RECURSIVE MembersToClose(_, _)
MembersToClose(s, p) ==
    IF p > Len(s) \/ s[p].tp \in {"QP_ARRAY_CLOSE", "QP_MAP_CLOSE"} THEN <<>>
    ELSE <<p>> \o MembersToClose(s, ObjEnd(s, p))

\* The positions of the members of the container whose header is at p.
Members(s, p) ==
    IF p > Len(s) THEN <<>>
    ELSE IF s[p].tp \in {"QP_ARRAY_OPEN", "QP_MAP_OPEN"}
    THEN MembersToClose(s, p + 1)
    ELSE MembersN(s, p + 1, Arity(s[p].tp))

\* The member at index k of a list of positions; past the list, the
\* position after the end of the packet.
MemberAt(s, ms, k) == IF k <= Len(ms) THEN ms[k] ELSE Len(s) + 1

\* A failure that the list of C12 does not name: a number that is no code
\* of siridb_insert_err_t and not 0.
OtherFailure == ERR_EXPECTING_ARRAY - 1

\* The first code of a list that is no 0, or 0.
FirstFailure(codes) ==
    IF \A i \in 1..Len(codes) : codes[i] = 0 THEN 0
    ELSE codes[CHOOSE i \in 1..Len(codes) :
                   /\ codes[i] # 0
                   /\ \A j \in 1..(i - 1) : codes[j] = 0]

\* The validation failure of the member at m of a points array.
PointFailure(s, m) ==
    IF s[m].tp # "QP_ARRAY2" THEN OtherFailure
    ELSE IF ObjAt(s, m + 1).tp # "QP_INT64" THEN ERR_EXPECTING_INTEGER_TS
    ELSE IF ObjAt(s, m + 1).num < 0 \/ ObjAt(s, m + 1).num >= TS_LIMIT
    THEN ERR_TIMESTAMP_OUT_OF_RANGE
    ELSE IF ObjAt(s, m + 2).tp \notin {"QP_INT64", "QP_DOUBLE", "QP_RAW"}
    THEN ERR_UNSUPPORTED_VALUE
    ELSE 0

\* The first validation failure of the points container at v.
PointsFailure(s, v) ==
    IF ~qp_is_array(ObjAt(s, v).tp) THEN ERR_EXPECTING_ARRAY
    ELSE IF Members(s, v) = <<>> THEN ERR_EXPECTING_AT_LEAST_ONE_POINT
    ELSE FirstFailure([i \in 1..Len(Members(s, v)) |->
                          PointFailure(s, Members(s, v)[i])])

IsSeriesName(o) == o.tp = "QP_RAW" /\ ValidNameLen(o.raw)

\* Map form: the first failure of each (name, points) pair, in order.
MapFailures(s) ==
    LET ms == Members(s, 1)
    IN  [k \in 1..((Len(ms) + 1) \div 2) |->
            IF ~IsSeriesName(s[ms[2 * k - 1]]) THEN OtherFailure
            ELSE PointsFailure(s, MemberAt(s, ms, 2 * k))]

\* Array form: the first failure of the element at e.
ElementFailure(s, e) ==
    LET km == Members(s, e)
        key1 == ObjAt(s, MemberAt(s, km, 1))
        key2 == ObjAt(s, MemberAt(s, km, 3))
    IN  IF s[e].tp # "QP_MAP2" \/ Len(km) # 4 THEN OtherFailure
        ELSE IF key1 = RawObj(STR_points)
        THEN FirstFailure(
                 <<PointsFailure(s, km[2]),
                   IF key2 = RawObj(STR_name) /\ IsSeriesName(s[km[4]])
                   THEN 0 ELSE OtherFailure>>)
        ELSE IF key1 = RawObj(STR_name)
        THEN FirstFailure(
                 <<IF IsSeriesName(s[km[2]]) THEN 0 ELSE OtherFailure,
                   IF key2 = RawObj(STR_points)
                   THEN PointsFailure(s, km[4]) ELSE OtherFailure>>)
        ELSE OtherFailure

ArrayFailures(s) ==
    [k \in 1..Len(Members(s, 1)) |-> ElementFailure(s, Members(s, 1)[k])]

\* The first validation failure of a packet in document order: an error
\* code of the list of C12, OtherFailure, or 0 when the packet is valid.
FirstValidationFailure(s) ==
    IF qp_is_map(ObjAt(s, 1).tp) THEN FirstFailure(MapFailures(s))
    ELSE IF qp_is_array(ObjAt(s, 1).tp) THEN FirstFailure(ArrayFailures(s))
    ELSE ERR_EXPECTING_MAP_OR_ARRAY

\* The error codes that C12 lists.
ListedCodes ==
    {ERR_EXPECTING_MAP_OR_ARRAY, ERR_EXPECTING_ARRAY,
     ERR_EXPECTING_AT_LEAST_ONE_POINT, ERR_EXPECTING_INTEGER_TS,
     ERR_TIMESTAMP_OUT_OF_RANGE, ERR_UNSUPPORTED_VALUE}

\* C12: when no allocation fails, siridb_insert_assign_pools returns the
\* code of the first validation failure of the packet: top level neither
\* map nor array, points that are no array, an empty points array, a
\* time-stamp that is no integer, a time-stamp out of range, a value that
\* is neither integer, float nor raw; and a valid packet is accepted.
C12_FirstFailureCode ==
    (Decoded /\ rc # ERR_MEM_ALLOC) =>
        /\ FirstValidationFailure(stream) \in ListedCodes =>
               rc = FirstValidationFailure(stream)
        /\ FirstValidationFailure(stream) = 0 => rc >= 0

\* C12 witness: a packet whose first series has an unsupported value in
\* its last point and whose second series has no points is rejected with
\* the code of the first.
C12_Witness ==
    /\ Decoded /\ phase = "rejected"
    /\ stream = FaultyMap(FaultBatch,
                          <<[kind |-> "value", at |-> MaxPoints],
                            [kind |-> "empty", at |-> 0]>>)
    /\ rc = ERR_UNSUPPORTED_VALUE
    /\ responses = <<ErrorPkg(ERR_UNSUPPORTED_VALUE)>>


\* The positions of the points containers of a packet: in map form the
\* values of the top-level map, in array form the values of the elements
\* that are arrays.
PointsContainers(s) ==
    LET ms == Members(s, 1)
    IN  IF qp_is_map(ObjAt(s, 1).tp)
        THEN {ms[2 * k] : k \in 1..(Len(ms) \div 2)}
        ELSE IF qp_is_array(ObjAt(s, 1).tp)
        THEN UNION {{Members(s, ms[k])[2 * j] :
                        j \in 1..(Len(Members(s, ms[k])) \div 2)} :
                    k \in 1..Len(ms)}
        ELSE {}

\* The members of points arrays that are no 2-tuple.
NonTuples(s) ==
    UNION {{Members(s, v)[j] : j \in {i \in 1..Len(Members(s, v)) :
                                        s[Members(s, v)[i]].tp # "QP_ARRAY2"}} :
           v \in {c \in PointsContainers(s) : qp_is_array(s[c].tp)}}

\* The strings of a packet that stand where a series name stands: the keys
\* of the top-level map, or the values of the key "name" in array form.
SeriesNamesOf(s) ==
    LET ms == Members(s, 1)
    IN  IF qp_is_map(ObjAt(s, 1).tp)
        THEN {s[ms[2 * k - 1]].raw : k \in 1..((Len(ms) + 1) \div 2)}
        ELSE UNION {{s[Members(s, ms[k])[2 * j]].raw :
                        j \in {i \in 1..(Len(Members(s, ms[k])) \div 2) :
                                  s[Members(s, ms[k])[2 * i - 1]].tp
                                      = "QP_RAW"}} :
                    k \in 1..Len(ms)}

\* The series names written to the pool buffers of the job.
NamesWritten == UNION {NamesIn(insert.packer[p]) : p \in DOMAIN insert.packer}

\* C13: a packet in which some member of a points array, first or later,
\* is no 2-tuple is rejected with a negative code, and no such member is
\* taken for a series name.
C13_NonTupleRejected ==
    (Decoded /\ NonTuples(stream) # {}) =>
        /\ rc < 0
        /\ phase = "rejected"
        /\ NamesWritten \subseteq SeriesNamesOf(stream)

\* An element of the array form is a map of two whose keys are name and
\* points, in either order.
NameAndPoints(s, e) ==
    /\ s[e].tp = "QP_MAP2"
    /\ Len(Members(s, e)) = 4
    /\ \/ /\ s[Members(s, e)[1]] = RawObj(STR_name)
          /\ s[Members(s, e)[3]] = RawObj(STR_points)
       \/ /\ s[Members(s, e)[1]] = RawObj(STR_points)
          /\ s[Members(s, e)[3]] = RawObj(STR_name)

\* The elements of an array-form packet that are maps of two with strings
\* for keys, one of them neither name nor points.
OtherKeyed(s) ==
    {k \in 1..Len(Members(s, 1)) :
        LET e == Members(s, 1)[k]
        IN  /\ s[e].tp = "QP_MAP2"
            /\ Len(Members(s, e)) = 4
            /\ s[Members(s, e)[1]].tp = "QP_RAW"
            /\ s[Members(s, e)[3]].tp = "QP_RAW"
            /\ ~NameAndPoints(s, e)}

\* C14: in array form a packet is accepted only if every element is a map
\* of two with the keys name and points; when the first element that fails
\* validation has another key (the empty key, a prefix of name or points),
\* the code is EXPECTING_NAME_AND_POINTS.
C14_OnlyNameAndPoints ==
    (Decoded /\ rc # ERR_MEM_ALLOC /\ qp_is_array(ObjAt(stream, 1).tp)) =>
        /\ rc >= 0 =>
               \A k \in 1..Len(Members(stream, 1)) :
                   NameAndPoints(stream, Members(stream, 1)[k])
        /\ \A k \in OtherKeyed(stream) :
               (\A j \in 1..(k - 1) : ArrayFailures(stream)[j] = 0) =>
                   rc = ERR_EXPECTING_NAME_AND_POINTS


(***************************************************************************)
(* Properties of the job's buffers.                                        *)
(***************************************************************************)
\* The buffer indexes of the job.
BufferIndexes == 0..(insert.packer_size - 1)

\* The dispatch loop has run.
Dispatched == phase \in {"dispatched", "closing", "freed"}

\* What holds of the buffers in every state of the job's life.
BuffersInRange ==
    /\ phase = "received" =>
           \A n \in Names : INSERT_get_pool(n) \in 0..(pools_len - 1)
    /\ insert.state # "none" =>
           /\ insert.packer_size >= 1
           /\ insert.packer_size <= pools_len
           /\ DOMAIN insert.packer = BufferIndexes
           /\ \A i \in 1..Len(sends) : sends[i].pool \in BufferIndexes
           /\ pending \subseteq BufferIndexes
           /\ Dispatched => \A n \in BufferIndexes : insert.packer[n] = NULL

\* C15: packer_size is set when the job is created, to the pool count of
\* that moment, and never changes, also when a pool is added while the job
\* is in flight; the buffers of the job are those with an index below
\* packer_size, and assign, the dispatch loop and siridb_insert_free read
\* and write no other.
C15_PackerSizeFrozen ==
    /\ []BuffersInRange
    /\ [][ /\ insert.state = "none" /\ insert'.state # "none" =>
                  insert'.packer_size = pools_len
           /\ insert.state # "none" =>
                  insert'.packer_size = insert.packer_size ]_vars

\* C15 witness: a job created with one pool is dispatched and freed after
\* a second pool was added; its local apply forwarded a series to the new
\* pool.
C15_Witness ==
    /\ phase = "freed"
    /\ pools_len > insert.packer_size
    /\ Applied
    /\ forward.state \in {"posted", "shipped"}


\* C16: a job whose batch has no series is accepted with a count of 0 and
\* leaves every pool buffer as siridb_insert_new made it (the header and
\* QP_MAP_OPEN); its dispatch sends nothing to a peer, replicates nothing
\* and applies nothing locally, the completion callback runs at once, and
\* the response it builds is RES_INSERT with success_msg reporting 0
\* points.
C16_EmptyBatch ==
    (Len(batch) = 0 /\ Posted) =>
        /\ rc = 0
        /\ insert.npoints = 0
        /\ phase = "posted" =>
               \A n \in BufferIndexes :
                   insert.packer[n] = <<TypeObj("QP_MAP_OPEN")>>
        /\ sends = <<>>
        /\ pending = {}
        /\ replicated = <<>>
        /\ storage = <<>>
        /\ forward = NoForward
        /\ EventAt("send") = {}
        /\ EventAt("local_begin") = {}
        /\ phase # "dispatched"
        /\ received_points = 0
        /\ (Completed /\ EventAt("no_packer") = {}) =>
               responses = << [tp |-> "CPROTO_RES_INSERT",
                               key |-> "success_msg",
                               msg |-> InsertedMsg(0)] >>

\* C16 witness: the empty batch answered on a server with two pools.
C16_Witness ==
    /\ Len(batch) = 0
    /\ phase = "freed"
    /\ insert.packer_size = 2
    /\ Len(responses) = 1
    /\ responses[1].tp = "CPROTO_RES_INSERT"
    /\ responses[1].msg = InsertedMsg(0)


(***************************************************************************)
(* Properties of the test variant of local apply.                          *)
(***************************************************************************)
\* The job's local apply takes the test variant.
TestVariant ==
    "TEST" \in insert.flags \/ (reindexing /\ "TESTED" \notin insert.flags)

\* A series that does not exist locally and belongs to another pool.
Foreign(n) == n \notin series /\ siridb_lookup_sn(lookup, n) # own_pool

\* This server forwards the foreign series n (and not its replica).
Forwards(n) == ~replica \/ siridb_series_server_id(n) = server_id

\* The series entries of the packers of the Forward job.
ForwardEntries(fw, p) ==
    {EntriesFrom(fw.packer[p], 2)[k] :
        k \in 1..Len(EntriesFrom(fw.packer[p], 2))}

\* C17: in a dispatch whose local apply is the test variant, for every
\* series name that does not exist locally and belongs to another pool no
\* series is created and add_point is not called; every entry of the
\* Forward job is such a series, in the packer of its pool, and is the name
\* followed by the points array as it stands in the buffer; and when the
\* Forward job is posted it holds every such series of the applied buffer
\* that this server is responsible for.
C17_TestVariantForwards ==
    [][ (phase = "posted" /\ TestVariant) =>
            /\ \A n \in Names :
                   Foreign(n) =>
                       /\ n \notin series'
                       /\ \A i \in 1..Len(storage') : storage'[i].name # n
            /\ \A p \in DOMAIN forward'.packer :
                   \A e \in ForwardEntries(forward', p) :
                       /\ Foreign(e.name)
                       /\ Forwards(e.name)
                       /\ siridb_lookup_sn(lookup, e.name) = p
                       /\ \E i \in 1..Len(batch) : e.objs = Entry(batch[i])
            /\ forward'.state = "posted" =>
                   \A i \in 1..Len(batch) :
                       ( /\ Foreign(batch[i].name)
                         /\ Forwards(batch[i].name)
                         /\ OccursIn(Entry(batch[i]),
                                     IF replica
                                     THEN replicated'[Len(replicated')].data
                                     ELSE insert.packer[own_pool]) )
                       => OccursIn(Entry(batch[i]),
                                   forward'.packer[siridb_lookup_sn(
                                                       lookup,
                                                       batch[i].name)])
      ]_vars

\* C17 witness: a series of two points was forwarded; it is not in the
\* series index and the engine holds no point of it.
C17_Witness ==
    /\ forward.state = "posted"
    /\ \E i \in 1..Len(batch) :
          /\ Len(batch[i].points) = 2
          /\ \E p \in DOMAIN forward.packer :
                 OccursIn(Entry(batch[i]), forward.packer[p])
          /\ batch[i].name \notin series
          /\ StoredFor(batch[i].name) = <<>>


(***************************************************************************)
(* Properties of the mutexes of local apply.                               *)
(***************************************************************************)
\* How often the event e occurs before position i of the job's trace.
Before(e, i) == Cardinality({j \in EventAt(e) : j < i})

\* Whether a mutex is held just before position i (1), or not (0).
SeriesHeld(i) == Before("lock_series", i) - Before("unlock_series", i)
ShardsHeld(i) == Before("lock_shards", i) - Before("unlock_shards", i)

\* What local apply does with the series index and the storage engine.
EngineEvents == {"add_point", "series_new", "forward", "skip"}

\* C18: in both variants of local apply series_mutex is locked first and
\* shards_mutex right after it, before the buffer is read; every series
\* creation, every add_point and every forwarded or skipped series happens
\* with both held; and both are released when local apply returns, on its
\* normal end and after a failed series creation, a failed add_point or
\* any other critical error.
C18_MutexDiscipline ==
    /\ \A i \in 1..(Len(events) + 1) :
           /\ SeriesHeld(i) \in {0, 1}
           /\ ShardsHeld(i) \in {0, 1}
    /\ \A i \in 1..Len(events) :
           /\ events[i] = "lock_series" =>
                  /\ i > 1 /\ events[i - 1] \in {"local_begin", "replicate"}
                  /\ i < Len(events) /\ events[i + 1] = "lock_shards"
           /\ events[i] = "lock_shards" => events[i - 1] = "lock_series"
           /\ events[i] \in EngineEvents =>
                  SeriesHeld(i) = 1 /\ ShardsHeld(i) = 1
           /\ events[i] \notin
                  EngineEvents \cup {"lock_shards", "unlock_series",
                                     "unlock_shards"} =>
                  SeriesHeld(i) = 0 /\ ShardsHeld(i) = 0
    /\ SeriesHeld(Len(events) + 1) = 0
    /\ ShardsHeld(Len(events) + 1) = 0
    /\ (storage # <<>> \/ forward.state # "none") =>
           EventAt("unlock_series") # {} /\ EventAt("unlock_shards") # {}

\* C18 witness: the test variant created a series, the first add_point
\* failed, and both mutexes were released.
C18_Witness ==
    /\ TestVariant
    /\ siri_err
    /\ EventAt("series_new") # {}
    /\ EventAt("add_point") = {}
    /\ EventAt("unlock_series") # {}
    /\ EventAt("unlock_shards") # {}
    /\ SeriesHeld(Len(events) + 1) = 0


(***************************************************************************)
(* Properties of the frame: what the steps of a job leave alone.           *)
(***************************************************************************)
\* The success responses among the packages sent to the client.
SuccessAt == {i \in 1..Len(responses) : responses[i].tp = "CPROTO_RES_INSERT"}

\* C19: received_points grows by the job's npoints in the step that builds
\* a success response, once, and in no other step: not when an error
\* response is built (a decode error, a failed peer, a critical error) and
\* not when no response is built.
C19_CountedOnSuccessOnly ==
    /\ [](received_points =
              IF SuccessAt # {} THEN insert.npoints ELSE 0)
    /\ [](Cardinality(SuccessAt) <= 1)
    /\ [][ IF /\ Len(responses') = Len(responses) + 1
              /\ responses'[Len(responses')].tp = "CPROTO_RES_INSERT"
           THEN received_points' = received_points + insert.npoints
           ELSE received_points' = received_points ]_vars

\* C19 witness: a job with points for the own pool and for a peer was
\* answered with success and counted.
C19_Witness ==
    /\ phase = "freed"
    /\ Len(promises.list) >= 1
    /\ OwnPoints > 0
    /\ SuccessAt = {1}
    /\ received_points = insert.npoints
    /\ received_points >= 2


C21_SignalMeansMemAlloc ==
    /\ phase = "received" =>
          \A tmpOK \in TmpOutcomes, failAt \in 0..MaxFailAt :
              LET d == siridb_insert_assign_pools(
                           stream, siridb_insert_new.packer, siri_err,
                           tmpOK, failAt)
              IN  /\ d.err => d.rc = ERR_MEM_ALLOC
                  /\ d.rc >= 0 => ~d.err
    /\ phase = "rejected" /\ siri_err => rc = ERR_MEM_ALLOC
    /\ phase = "posted" => rc >= 0 /\ ~siri_err

\* An array-form packet with a validation failure in it is answered with
\* ERR_MEM_ALLOC because the signal was raised while it was decoded.
C21_Witness ==
    /\ phase = "rejected"
    /\ siri_err
    /\ rc = ERR_MEM_ALLOC
    /\ qp_is_array(ObjAt(stream, 1).tp)
    /\ FirstValidationFailure(stream) \in ListedCodes

(***************************************************************************)
(* Properties of the containment check of the router.                      *)
(***************************************************************************)
\* The request handler routes at least one series name while the database
\* is reindexing: INSERT_get_pool consults the series index with ct_getn.
ContainmentChecked ==
    /\ phase = "received"
    /\ reindexing
    /\ wellformed
    /\ batch # <<>>
    /\ phase' \in {"posted", "rejected", "failed"}
    /\ insert'.state # "none"

\* C22: the containment check of INSERT_get_pool on the series index is
\* made while series_mutex is held, as the reads and writes of local apply
\* are: the handler that routes a name of a reindexing database locks
\* series_mutex.
C22_ContainmentCheckLocked ==
    [][ContainmentChecked =>
           \E i \in 1..Len(events') : events'[i] = "lock_series"]_vars

(***************************************************************************)
(* Properties of the dispatch loop.                                        *)
(***************************************************************************)
\* The step of INSERT_points_to_pools that runs the dispatch loop.
DispatchStep == phase = "posted" /\ phase' \in {"dispatched", "closing"}

\* The sends of the job after the step that went to pool n.
SendsTo(n) == {i \in 1..Len(sends') : sends'[i].pool = n}

\* C23: the dispatch loop attempts exactly one send to every pool other
\* than the own pool whose buffer is non-empty, with the buffer as body and
\* the tag INSERT_TEST_POOL when the job has the TEST flag, INSERT_POOL
\* otherwise, and with the aggregator collecting the response of every
\* accepted send; it sends nothing for an empty buffer and never sends to
\* the own pool.
C23_OneSendPerBusyPeer ==
    [][DispatchStep =>
           /\ SendsTo(own_pool) = {}
           /\ \A i \in 1..Len(sends') :
                  sends'[i].pool \in 0..(insert.packer_size - 1)
           /\ \A n \in (0..(insert.packer_size - 1)) \ {own_pool} :
                  IF packer_is_empty(insert.packer[n])
                  THEN SendsTo(n) = {}
                  ELSE /\ Cardinality(SendsTo(n)) = 1
                       /\ \A i \in SendsTo(n) :
                              /\ sends'[i].pkg.data = insert.packer[n]
                              /\ sends'[i].pkg.tp =
                                     IF "TEST" \in insert.flags
                                     THEN "BPROTO_INSERT_TEST_POOL"
                                     ELSE "BPROTO_INSERT_POOL"
                              /\ sends'[i].accepted <=> n \in pending'
           /\ Cardinality(EventAt("send")') = Len(sends')]_vars

\* C23 witness: a job with the TEST flag whose batch went to both pools was
\* dispatched: one send to the peer with the test tag, local apply for the
\* own pool's buffer.
C23_Witness ==
    /\ phase = "dispatched"
    /\ Len(batch) = 2
    /\ Len(sends) = 1
    /\ sends[1].pool # own_pool
    /\ sends[1].pkg.tp = "BPROTO_INSERT_TEST_POOL"
    /\ PairsIn(sends[1].pkg.data) = 1
    /\ insert.npoints = 3
    /\ Applied

\* The pools whose send the transport accepted.
AcceptedPools == {sends[i].pool : i \in AcceptedSends}

\* C24: after the dispatch loop the aggregator awaits as many responses as
\* sends were accepted, a rejected send is not counted, and the count is
\* at most the size the aggregator was created with, the live pool count
\* less one; the completion callback runs once that many responses or
\* time-outs are collected, at once when there is none to await, and the
\* job does not wait for a send that was rejected.
C24_AwaitsAcceptedSends ==
    /\ [](promises.state # "none" =>
              /\ promises.size = Cardinality(AcceptedSends)
              /\ promises.size <= pools_len - 1
              /\ pending \subseteq AcceptedPools
              /\ Len(promises.list) + Cardinality(pending) = promises.size
              /\ phase = "dispatched" <=>
                     Len(promises.list) < promises.size
              /\ Completed <=> Len(promises.list) = promises.size)
    /\ [][DispatchStep =>
              (phase' = "closing" <=> AcceptedSends' = {})]_vars
    /\ (phase = "dispatched") ~> Completed

\* C24 witness: of the sends to two peers one was rejected; the completion
\* callback ran after the one awaited promise was collected.
C24_Witness ==
    /\ Completed
    /\ Len(sends) = 2
    /\ Cardinality(AcceptedSends) = 1
    /\ promises.size = 1
    /\ Len(promises.list) = 1

(***************************************************************************)
(* Properties of replication.                                              *)
(***************************************************************************)
\* The tag of the package for the replica, by the job's flags.
ReplicaTag(flags) ==
    IF "TEST" \in flags THEN "BPROTO_INSERT_TEST_SERVER"
    ELSE IF "TESTED" \in flags THEN "BPROTO_INSERT_TESTED_SERVER"
    ELSE "BPROTO_INSERT_SERVER"

\* C25 as stated: with a replica and a non-empty buffer for the own pool,
\* a package built from that buffer is enqueued with the replica exactly
\* once per job.
C25_EnqueuedOncePerJob ==
    [][(DispatchStep /\ replica /\ OwnBusy) => Len(replicated') = 1]_vars

\* C25, amended: a package is enqueued with the replica at most once per
\* job.  With a replica whose initsync is idle the whole buffer of the own
\* pool is enqueued once, tagged INSERT_TEST_SERVER for a TEST job, else
\* INSERT_TESTED_SERVER for a TESTED job, else INSERT_SERVER; with initsync
\* in progress the package of siridb_replicate_pkg_filter is enqueued once
\* when there is one and nothing is enqueued when there is none; without a
\* replica, or with an empty buffer for the own pool, nothing is enqueued.
C25_EnqueuedAtMostOnce ==
    /\ [](\A f \in SUBSET {"TEST", "TESTED"} : ServerTag(f) = ReplicaTag(f))
    /\ [][DispatchStep =>
              IF replica /\ OwnBusy
              THEN IF ~initsync
                   THEN replicated' =
                            <<[tp |-> ReplicaTag(insert.flags),
                               data |-> insert.packer[own_pool]]>>
                   ELSE /\ Len(replicated') <= 1
                        /\ Len(replicated') = 1 <=>
                               EventAt("no_pkg")' = {}
                        /\ \A i \in 1..Len(replicated') :
                               /\ NamesIn(replicated'[i].data) \subseteq
                                      NamesIn(insert.packer[own_pool])
                               /\ PairsIn(replicated'[i].data) <=
                                      PairsIn(insert.packer[own_pool])
              ELSE replicated' = <<>>]_vars
    /\ [][replicated # <<>> => replicated' = replicated]_vars

\* C25 witness: a TEST job of a server whose replica is in step enqueued
\* its own pool's buffer.
C25_Witness ==
    /\ replica
    /\ ~initsync
    /\ Len(replicated) = 1
    /\ replicated[1].tp = "BPROTO_INSERT_TEST_SERVER"
    /\ PairsIn(replicated[1].data) > 0

\* C26: whenever the buffer of the own pool is non-empty, every series and
\* every point in it is passed to local apply, without a replica, with a
\* replica whose initsync is idle and with one whose initsync is in
\* progress: local apply runs (unless its unpacker cannot be allocated),
\* and the package it reads holds the names and the points of the buffer.
C26_WholeBufferApplied ==
    [][(DispatchStep /\ OwnBusy /\ EventAt("no_unpacker")' = {}) =>
           /\ Cardinality(EventAt("local_begin")') = 1
           /\ replica =>
                  /\ Len(replicated') = 1
                  /\ NamesIn(replicated'[1].data) =
                         NamesIn(insert.packer[own_pool])
                  /\ PairsIn(replicated'[1].data) =
                         PairsIn(insert.packer[own_pool])]_vars

\* The client is told of success although local apply never ran on the
\* non-empty buffer of the own pool.
SuccessWithoutLocalApply ==
    /\ Completed
    /\ Len(responses) = 1
    /\ responses[1].tp = "CPROTO_RES_INSERT"
    /\ insert.npoints > 0
    /\ sends = <<>>
    /\ EventAt("local_begin") = {}
    /\ ~siri_err

(***************************************************************************)
(* Properties of the response after the fan-out.                           *)
(***************************************************************************)
\* C27: the client gets the success response only if every non-empty
\* remote buffer was accepted by the transport and acknowledged by its
\* pool with ACK_INSERT; a rejected send of a non-empty remote buffer does
\* not end in a success response that counts its points.
C27_SuccessMeansAllShipped ==
    (Completed /\ Len(responses) = 1
               /\ responses[1].tp = "CPROTO_RES_INSERT") =>
        /\ \A i \in 1..Len(sends) : sends[i].accepted
        /\ \A i \in 1..Len(sends) :
               \E j \in 1..Len(promises.list) :
                   /\ promises.list[j].server = sends[i].pool
                   /\ promises.list[j].pkg = "BPROTO_ACK_INSERT"

(***************************************************************************)
(* Properties of the choice between the variants of local apply.           *)
(***************************************************************************)
\* Whether siridb_insert_local, called with the flags f on the buffer of
\* the own pool, runs the test variant: only INSERT_local_test creates a
\* Forward job, which it posts or frees before it returns.
RunsTestVariant(f) ==
    siridb_insert_local(insert.packer[own_pool], f,
                        Event(LocalState(0), "local_begin"), TRUE, TRUE
                       ).fwd_state # "none"

\* The condition of C28 for the flags f.
TestCondition(f) == "TEST" \in f \/ (reindexing /\ "TESTED" \notin f)

\* C28: siridb_insert_local runs the test variant exactly when its flags
\* contain TEST, or the database is reindexing and the flags lack TESTED,
\* and the plain variant otherwise; a job made by siridb_insert_new has the
\* TEST flag exactly when the database was reindexing when it was made, and
\* keeps its flags.
C28_VariantByFlags ==
    /\ []((phase = "posted" /\ OwnBusy) =>
              \A f \in SUBSET {"TEST", "TESTED"} :
                  RunsTestVariant(f) <=> TestCondition(f))
    /\ [][(DispatchStep /\ EventAt("lock_series")' # {}) =>
              (forward'.state # "none" <=> TestCondition(insert.flags))]_vars
    /\ [][(phase = "received" /\ insert'.state # "none") =>
              insert'.flags = IF reindexing THEN {"TEST"} ELSE {}]_vars
    /\ [][insert.state # "none" => insert'.flags = insert.flags]_vars

\* C28 witness: a job made before the database started reindexing has no
\* TEST flag, and its local apply, run after a pool was added, was the test
\* variant.
C28_Witness ==
    /\ Applied
    /\ reindexing
    /\ insert.flags = {}
    /\ forward.state # "none"
    /\ EventAt("lock_series") # {}

(***************************************************************************)
(* Properties of the routing in the test variant of local apply.           *)
(***************************************************************************)
\* The step in which a peer's package is applied.
PeerApply == phase = "peer_received" /\ phase' = "peer_applied"

\* The series names of the applied package.
PeerNames == {batch[i].name : i \in 1..Len(batch)}

\* The engine holds a point of the series n after the step.
StoredAfter(n) == \E i \in 1..Len(storage') : storage'[i].name = n

\* C29 as stated: in the test variant a name without a local series is
\* routed with the router of the request handler, route(name, state); the
\* series is created and applied locally exactly when that gives the own
\* pool, and is otherwise forwarded in the packer of the routed pool.
C29_RoutedByRouter ==
    [][PeerApply =>
           /\ \A n \in PeerNames \ series :
                  /\ n \in series' => RouteRef(n) = own_pool
                  /\ (RouteRef(n) = own_pool /\ ~siri_err') =>
                         n \in series' /\ StoredAfter(n)
           /\ \A p \in DOMAIN forward'.packer :
                  \A e \in ForwardEntries(forward', p) :
                      e.name \notin series /\ p = RouteRef(e.name)]_vars

\* C29, amended: in the test variant a name without a local series is
\* looked up in the live lookup alone, siridb_lookup_sn(pools->lookup,
\* name), whatever the reindexing state and the previous lookup are; the
\* series is created and applied locally exactly when that gives the own
\* pool, and an entry of the Forward job sits in the packer of the pool
\* the live lookup gives.
C29_RoutedByLiveLookup ==
    [][PeerApply =>
           /\ \A n \in Names \ series : n \in series' => n \in PeerNames
           /\ \A n \in PeerNames \ series :
                  /\ n \in series' => siridb_lookup_sn(lookup, n) = own_pool
                  /\ (siridb_lookup_sn(lookup, n) = own_pool /\ ~siri_err') =>
                         n \in series' /\ StoredAfter(n)
           /\ \A p \in DOMAIN forward'.packer :
                  \A e \in ForwardEntries(forward', p) :
                      /\ e.name \in PeerNames \ series
                      /\ p = siridb_lookup_sn(lookup, e.name)
                      /\ p # own_pool]_vars

\* C29 witness: on a reindexing server a series was created that the live
\* lookup gives to the own pool and the previous lookup to another pool.
C29_Witness ==
    /\ phase = "peer_applied"
    /\ reindexing
    /\ ~siri_err
    /\ Len(batch) = 1
    /\ EventAt("series_new") # {}
    /\ siridb_lookup_sn(lookup, batch[1].name) = own_pool
    /\ siridb_lookup_sn(prev_lookup, batch[1].name) # own_pool
    /\ batch[1].name \in series
    /\ forward.state = "freed"

\* The entries of the applied package whose series has no local series and
\* belongs, by the live lookup, to another pool; those of them that this
\* server leaves to its replica, and those it forwards itself.
ForeignAt == {i \in 1..Len(batch) : Foreign(batch[i].name)}
SkippedAt ==
    {i \in ForeignAt :
        replica /\ siridb_series_server_id(batch[i].name) # server_id}
ForwardedAt == ForeignAt \ SkippedAt

\* The number of add_point calls for the series n after the step.
CallsAfter(n) ==
    Cardinality({i \in 1..Len(storage') : storage'[i].name = n})

\* C30: in the test variant a series without a local series that belongs
\* to another pool is skipped exactly when a replica exists and
\* siridb_series_server_id(name) is not this server's id, and is forwarded
\* otherwise; in both cases the scan goes on with the next series: when
\* nothing fails, every skipped entry leaves no trace in the index, the
\* engine or the Forward job, every forwarded entry sits in the Forward
\* job, which is posted, and every other series of the package is applied
\* with all its points.
C30_SkipOrForward ==
    [][(PeerApply /\ ~siri_err') =>
           /\ Cardinality(EventAt("skip")') = Cardinality(SkippedAt)
           /\ Cardinality(EventAt("forward")') = Cardinality(ForwardedAt)
           /\ forward'.state = "posted" <=> ForwardedAt # {}
           /\ \A i \in SkippedAt :
                  /\ batch[i].name \notin series'
                  /\ CallsAfter(batch[i].name) = 0
                  /\ ~\E j \in ForwardedAt : batch[j].name = batch[i].name
                  /\ \A p \in DOMAIN forward'.packer :
                         \A e \in ForwardEntries(forward', p) :
                             e.name # batch[i].name
           /\ \A i \in ForwardedAt :
                  /\ batch[i].name \notin series'
                  /\ CallsAfter(batch[i].name) = 0
                  /\ OccursIn(Entry(batch[i]),
                              forward'.packer[siridb_lookup_sn(
                                                  lookup, batch[i].name)])
           /\ \A i \in (1..Len(batch)) \ ForeignAt :
                  /\ batch[i].name \in series'
                  /\ CallsAfter(batch[i].name) =
                         Len(PointsFor(batch[i].name))]_vars

\* C30 witness: the first series of the package was skipped, it is left
\* to the replica, and the second one was applied.
C30_Witness ==
    /\ phase = "peer_applied"
    /\ ~siri_err
    /\ replica
    /\ Len(batch) = 2
    /\ EventAt("skip") # {}
    /\ EventAt("forward") = {}
    /\ batch[1].name \notin series
    /\ siridb_series_server_id(batch[1].name) # server_id
    /\ StoredFor(batch[2].name) = batch[2].points

(***************************************************************************)
(* Properties of the Forward job.                                          *)
(***************************************************************************)
\* The step of a peer's package in which the scan of the test variant ran.
PeerScan == PeerApply /\ EventAt("lock_series")' # {}

\* The Forward job is handed over or freed once and for all.
ForwardSettled ==
    /\ [][forward.state = "freed" => forward' = forward]_vars
    /\ [][forward.state = "posted" =>
              /\ forward'.state \in {"posted", "shipped"}
              /\ forward'.packer = forward.packer]_vars
    /\ [][forward.state = "shipped" => forward' = forward]_vars

\* C31 as stated: after the scan of the test variant the task that ships
\* the Forward job is posted whenever a fragment was accumulated and is
\* not posted when none was; the Forward job is handed to the task or
\* freed, once.
C31_PostedIffFragments ==
    /\ [][PeerScan =>
              /\ forward'.state \in {"posted", "freed"}
              /\ forward'.state = "posted" <=> EventAt("forward")' # {}]_vars
    /\ ForwardSettled

\* C31, amended: after the scan of the test variant the task that ships
\* the Forward job is posted exactly when a fragment was accumulated, the
\* handle of the task could be allocated and the critical-error signal is
\* not raised; otherwise no task is posted and the Forward job is freed,
\* fragments included.  In every case the Forward job is handed to the
\* task or freed, once.
C31_PostedUnlessFailed ==
    /\ [][PeerScan =>
              /\ forward'.state \in {"posted", "freed"}
              /\ forward'.state = "posted" <=>
                     (EventAt("forward")' # {} /\ ~siri_err')
              /\ Cardinality(EventAt("forward_posted")') =
                     IF forward'.state = "posted" THEN 1 ELSE 0
              /\ forward'.state = "posted" =>
                     \E p \in DOMAIN forward'.packer :
                         ForwardEntries(forward', p) # {}]_vars
    /\ ForwardSettled

\* C31 witness: two fragments were accumulated and the Forward job was
\* shipped by the task.
C31_Witness ==
    /\ phase = "peer_applied"
    /\ Cardinality(EventAt("forward")) = 2
    /\ forward.state = "shipped"
    /\ ~siri_err

\* A fragment was accumulated and the Forward job was freed with it: a
\* later add_point failed or the handle could not be allocated.
FragmentsDropped ==
    /\ phase = "peer_applied"
    /\ EventAt("forward") # {}
    /\ forward.state = "freed"
    /\ siri_err

(***************************************************************************)
(* Properties of the critical-error signal in local apply.                 *)
(***************************************************************************)
\* The flags siridb_insert_local is called with: a plain, a TEST and a
\* TESTED package.
LocalFlags == {{}, {"TEST"}, {"TESTED"}}

\* More engine calls than local apply of the own pool's buffer can make:
\* a lookup and a creation for every series, an add_point for every point.
EngineCalls == 2 * Len(batch) + insert.npoints

\* Local apply of the own pool's buffer with the flags f, when the engine
\* call number failAt fails (0: none), the signal being raised at entry or
\* not.
LocalRun(f, failAt, raised) ==
    siridb_insert_local(
        insert.packer[own_pool], f,
        Event([LocalState(failAt) EXCEPT !.err = raised], "local_begin"),
        TRUE, TRUE)

\* C32: in both variants of local apply, once the critical-error signal is
\* raised no further add_point call and no further series creation is
\* made: with the signal raised at entry the engine is not called at all,
\* and a failed lookup, creation or add_point is the last engine call of
\* the apply, whichever series and point it falls on.
C32_NoCallAfterSignal ==
    (phase = "posted" /\ OwnBusy) =>
        \A f \in LocalFlags :
            /\ LET x == LocalRun(f, 0, TRUE)
               IN  /\ x.calls = 0
                   /\ x.series = series
                   /\ x.storage = storage
                   /\ x.err
            /\ \A failAt \in 1..EngineCalls :
                   LET x == LocalRun(f, failAt, FALSE)
                   IN  /\ x.err <=> x.calls = failAt
                       /\ x.calls <= failAt
                       /\ x.err =>
                              Cardinality(
                                  {i \in 1..Len(x.ev) :
                                      x.ev[i] \in {"add_point",
                                                   "series_new"}})
                                  < failAt

\* C32 witness: the first add_point of a job's local apply succeeded, a
\* later engine call failed, and the points after it were not added.
C32_Witness ==
    /\ Applied
    /\ siri_err
    /\ sends = <<>>
    /\ insert.npoints = 3
    /\ Len(storage) = 1
    /\ Cardinality(EventAt("add_point")) = 1

(***************************************************************************)
(* Properties of the ownership of the pool buffers.                        *)
(***************************************************************************)
\* What the dispatch step did with the buffer of the own pool: local apply
\* read it (or its unpacker could not be allocated), or the replica filter
\* took it and gave no package.
OwnHandOffs ==
    EventAt("local_begin")' \cup EventAt("no_unpacker")'
        \cup EventAt("no_pkg")'

\* C33: each pool buffer of a job is released or handed off once.  In the
\* dispatch loop an empty buffer is freed and goes nowhere, the buffer of
\* the own pool is consumed once by local apply or the replica package, a
\* remote buffer is handed once to the transport, its content unchanged;
\* after the loop every slot is NULL, a slot that is NULL stays NULL, so
\* siridb_insert_free, which frees the slots that are not NULL, finds
\* nothing to free after a dispatch and frees every buffer of a rejected
\* job once.
C33_BuffersReleasedOnce ==
    /\ [](Dispatched => \A n \in BufferIndexes : insert.packer[n] = NULL)
    /\ [](insert.state = "freed" =>
              \A n \in DOMAIN insert.packer : insert.packer[n] = NULL)
    /\ [][insert.state # "none" =>
              \A n \in DOMAIN insert.packer :
                  insert.packer[n] = NULL => insert'.packer[n] = NULL]_vars
    /\ [][DispatchStep =>
              \A n \in BufferIndexes :
                  /\ insert.packer[n] # NULL
                  /\ insert'.packer[n] = NULL
                  /\ Cardinality(SendsTo(n)) =
                         IF n # own_pool /\ ~packer_is_empty(insert.packer[n])
                         THEN 1 ELSE 0
                  /\ \A i \in SendsTo(n) :
                         sends'[i].pkg.data = insert.packer[n]
                  /\ n = own_pool =>
                         Cardinality(OwnHandOffs) =
                             IF packer_is_empty(insert.packer[n])
                             THEN 0 ELSE 1]_vars
    /\ [][(phase = "closing" /\ phase' = "freed") =>
              insert'.packer = insert.packer]_vars
    /\ [][(phase = "received" /\ phase' = "rejected"
                              /\ insert'.state # "none") =>
              \A n \in DOMAIN insert'.packer : insert'.packer[n] = NULL]_vars

\* C33 witness: a job with a buffer for each pool was freed after its send
\* was rejected and its own buffer was applied.
C33_Witness ==
    /\ phase = "freed"
    /\ Applied
    /\ Len(sends) = 1
    /\ ~sends[1].accepted
    /\ \A n \in DOMAIN insert.packer : insert.packer[n] = NULL

(***************************************************************************)
(* Properties of the shape of the pool buffers.                            *)
(***************************************************************************)
\* From position p of buf on: triples (ARRAY2, valid integer time-stamp,
\* value) up to an ARRAY_CLOSE; the position after the close, 0 if the
\* objects are anything else.
RECURSIVE TriplesEnd(_, _)
TriplesEnd(buf, p) ==
    IF p > Len(buf) THEN 0
    ELSE IF buf[p].tp = "QP_ARRAY_CLOSE" THEN p + 1
    ELSE IF /\ p + 2 <= Len(buf)
            /\ buf[p].tp = "QP_ARRAY2"
            /\ buf[p + 1].tp = "QP_INT64"
            /\ buf[p + 1].num >= 0
            /\ buf[p + 1].num < TS_LIMIT
            /\ buf[p + 2].tp \in {"QP_INT64", "QP_DOUBLE", "QP_RAW"}
         THEN TriplesEnd(buf, p + 3)
         ELSE 0

\* From position p of buf on: entries name, ARRAY_OPEN, one or more
\* triples, ARRAY_CLOSE, up to the end of the buffer.
RECURSIVE EntriesOnly(_, _)
EntriesOnly(buf, p) ==
    IF p > Len(buf) THEN TRUE
    ELSE /\ p + 2 <= Len(buf)
         /\ buf[p].tp = "QP_RAW"
         /\ Len(buf[p].raw) >= 2
         /\ buf[p].raw[Len(buf[p].raw)] = NUL
         /\ buf[p + 1].tp = "QP_ARRAY_OPEN"
         /\ buf[p + 2].tp = "QP_ARRAY2"
         /\ TriplesEnd(buf, p + 2) # 0
         /\ EntriesOnly(buf, TriplesEnd(buf, p + 2))

\* A pool buffer is MAP_OPEN followed by entries, or by nothing.
WellFormedBuffer(buf) ==
    /\ Len(buf) >= 1
    /\ buf[1] = TypeObj("QP_MAP_OPEN")
    /\ EntriesOnly(buf, 2)

\* C34: whenever siridb_insert_assign_pools returns a non-negative count,
\* every pool buffer of the job is empty (MAP_OPEN only) or holds, after
\* MAP_OPEN, one or more entries name, ARRAY_OPEN, one or more (ARRAY2,
\* integer ts, value) triples, ARRAY_CLOSE, every ts valid and every value
\* an integer, a float or a raw; for the map form and for the array form
\* with the keys in either order, well-formed packet or not.
C34_BuffersWellFormed ==
    /\ phase = "received" =>
          \A tmpOK \in TmpOutcomes, failAt \in 0..MaxFailAt :
              LET d == siridb_insert_assign_pools(
                           stream, siridb_insert_new.packer, siri_err,
                           tmpOK, failAt)
              IN  d.rc >= 0 =>
                      \A n \in DOMAIN d.packer : WellFormedBuffer(d.packer[n])
    /\ Accepted =>
          /\ rc >= 0
          /\ \A n \in DOMAIN insert.packer :
                 WellFormedBuffer(insert.packer[n])

\* C34 witness: an accepted array form whose first element has its points
\* before its name; a buffer holds two entries.
C34_Witness ==
    /\ Accepted
    /\ qp_is_array(ObjAt(stream, 1).tp)
    /\ ObjAt(stream, 3) = RawObj(STR_points)
    /\ \E n \in DOMAIN insert.packer :
           /\ Cardinality(NamesIn(insert.packer[n])) = 2
           /\ WellFormedBuffer(insert.packer[n])

=============================================================================
